---------------------------- MODULE Spec2Model ----------------------------
(***************************************************************************)
(* A model of the STIR macro analyst's quantitative core:                  *)
(*   - core/rates_engine.py      interpolate_discount_rate                 *)
(*   - core/scenarios.py         integrate_rnd_over_range,                 *)
(*                               compute_scenario_probabilities            *)
(*   - core/sabr_calibration.py  calculate_implied_vol                     *)
(*   - core/rnd_engine.py        generate_rnd                              *)
(*   - core/stir_analysis.py     analyze_stir_contract                     *)
(*   - core/contracts.py         normalize_ticker, infer_currency,         *)
(*                               parse_contract_code                       *)
(*   - core/market_data.py       get_option_chain_filtered                 *)
(*   - core/meeting_dates.py     count_meetings_in_range                   *)
(*   - core/rates_engine.py      get_rate_tenor and the business-day roll  *)
(*   - tools/                    analyze_stir_scenarios, plot_rnd_analysis *)
(*   - infra/bbg_client.py       BloombergConnection                       *)
(*                                                                         *)
(* Numbers.  Rates, prices and days are integers in a fixed fine unit.     *)
(* A quotient the code computes in floating point (a group mean, a         *)
(* probability) is kept as an exact fraction [num, den].  The rounding of *)
(* binary floating point is modelled where a price is computed from a      *)
(* rate: a price near 100 has a coarser float spacing (Quantum fine units) *)
(* than the rate, so 100 - rate and the points of np.linspace between two  *)
(* prices are rounded to that spacing.                                     *)
(*                                                                         *)
(* External libraries (py_vollib's solver, pysabr's fit and pricer,        *)
(* SciPy's CubicSpline) are not code of the repository: what they return   *)
(* is either a nondeterministic choice over a small set or a symbolic      *)
(* term of their arguments.                                                *)
(***************************************************************************)
EXTENDS Integers, Sequences, FiniteSets, TLC

VARIABLES
    \* ---- interpolate_discount_rate (core/rates_engine.py) ----
    cv_pc,          \* position inside / between calls
    curve_df,       \* the caller's data frame: [columns_ok, rows]
    target_dte,     \* the target days-to-expiry of the call
    df,             \* the function's working copy after cleaning
    cv_out,         \* what the call returned or raised
    cv_prev,        \* the previous call: its cleaned frame and outcome
    cv_rel,         \* how curve_df was derived from the previous call's input
    \* ---- the scenario probability engine (core/scenarios.py) ----
    se_pc,          \* "args": arguments chosen, "done": a function was applied
    se_strikes,     \* strikes: the rate grid
    se_density,     \* density: one value per grid point
    se_scenarios,   \* scenarios: name -> [min_rate, max_rate]
    se_range,       \* the range of the last integrate_rnd_over_range call
    se_prob,        \* what that call returned
    se_probs,       \* what compute_scenario_probabilities returned
    \* ---- analyze_stir_contract (core/stir_analysis.py) ----
    an_pc,              \* the next step of the call, "returned" or "raised"
    an_scenarios,       \* scenarios: name -> [min_rate, max_rate]
    an_fut_settle,      \* fut_settle
    an_option_tickers,  \* option_tickers
    an_fetched,         \* the frame get_option_settlements returned
    an_opt_df,          \* opt_df, overwritten by each filter
    an_dte,             \* dte
    an_rfr,             \* rfr
    an_solver,          \* what the implied-vol solver did for each row
    an_ivol_df,         \* opt_df with its IVOL column, before the IVOL filter
    an_calib,           \* the arguments calibrate_sabr was called with
    an_sabr_params,     \* sabr_params
    an_strikes_price,   \* strikes_price as generate_rnd returned it
    an_density,         \* density as generate_rnd returned it
    an_result,          \* the dict returned
    an_error,           \* the message of the exception raised
    an_contract,        \* contract, as its characters
    an_date,            \* date, as its characters
    an_calls,           \* the external calls made so far, in order
    \* ---- calculate_probability_shifts (core/scenarios.py) ----
    sh_pc,              \* "args" or "done"
    sh_probs1,          \* probs1: name -> probability
    sh_probs2,          \* probs2
    sh_shifts,          \* what the call returned
    \* ---- core/contracts.py ----
    ct_pc,              \* "run" while the functions are being applied
    ct_ticker,          \* ticker, as its characters
    ct_normalized,      \* normalize_ticker(ticker)
    ct_renormalized,    \* normalize_ticker(normalize_ticker(ticker))
    ct_currency,        \* what infer_currency returned or raised
    ct_parsed,          \* what parse_contract_code returned
    \* ---- calibrate_sabr (core/sabr_calibration.py) ----
    cs_pc,              \* "start", "returned" or "raised"
    cs_strikes,         \* strikes
    cs_market_vols,     \* market_vols
    cs_out,             \* the SABRParameters returned, if any
    \* ---- analyze_stir_scenarios (tools/stir_scenario_tool.py) ----
    tl_pc,              \* the next statement of the tool
    tl_contract,        \* contract, as its characters
    tl_scenarios,       \* scenarios: the dict of lists the tool is called with
    tl_scenarios_tuples,\* scenarios_tuples
    tl_core,            \* the dict analyze_stir_contract built, at its return
    tl_result,          \* the same dict object as the tool holds it now
    tl_state,           \* tool_context.state: key -> a reference to a dict
    tl_return,          \* what the tool returned
    \* ---- get_option_chain_filtered (core/market_data.py) ----
    ch_pc,              \* "start" or "returned"
    ch_chain,           \* what fetch_option_chain returned: the option tickers
    ch_fut,             \* fut_settlement
    ch_out,             \* filtered_tickers
    \* ---- count_meetings_in_range (core/meeting_dates.py) ----
    mt_pc,              \* "start", "returned" or "raised"
    mt_currency,        \* currency
    mt_file,            \* the meeting-dates file: missing, or its date cells
    mt_start,           \* start_date, as its characters
    mt_end,             \* end_date, as its characters
    mt_out,             \* the dict returned, or the exception raised
    \* ---- add_months/add_weeks_and_ensure_business_day (core/rates_engine.py) ----
    bd_pc,              \* "start", "loop" or "returned"
    bd_holidays,        \* country_holidays: the days that are holidays
    bd_base,            \* start_date + the offset
    bd_date,            \* new_date
    \* ---- get_rate_tenor (core/rates_engine.py) ----
    tn_pc,              \* "start", "returned" or "raised"
    tn_ccy,             \* ccy
    tn_ticker,          \* curve_ticker, as its characters
    tn_out,             \* the offset get_rate_tenor applied, or that it raised
    \* ---- a session of tool calls (tools/) ----
    ss_pc,              \* "idle" between calls, or the next step of plot_rnd_analysis
    ss_state,           \* tool_context.state
    ss_artifacts,       \* the artifact store: the filenames saved
    ss_runs,            \* the number of tool calls made
    ss_req,             \* the arguments of the call in progress or last made
    ss_out,             \* what the last call returned
    ss_prev,            \* tool_context.state and the store when the call began
    ss_saved,           \* artifacts_saved of the call in progress or last made
    \* ---- BloombergConnection (infra/bbg_client.py) ----
    bc_pc,              \* the position in "with BloombergConnection(...) as conn:"
    bc_session,         \* the session: "none", "created", "started" or "stopped"
    bc_stops,           \* how many times session.stop() was called on it
    bc_conns,           \* the number of with-statements begun
    bc_events,          \* the events the body has taken from nextEvent
    bc_exc,             \* the exception propagating, "" if none
    bc_running          \* sessions of earlier with-statements left started

curveVars == <<cv_pc, curve_df, target_dte, df, cv_out, cv_prev, cv_rel>>

scenarioVars ==
    <<se_pc, se_strikes, se_density, se_scenarios, se_range, se_prob, se_probs>>

analysisVars ==
    <<an_pc, an_scenarios, an_fut_settle, an_option_tickers, an_fetched, an_opt_df,
      an_dte, an_rfr, an_solver, an_ivol_df, an_calib, an_sabr_params,
      an_strikes_price, an_density, an_result, an_error,
      an_contract, an_date, an_calls>>

shiftVars == <<sh_pc, sh_probs1, sh_probs2, sh_shifts>>

contractVars ==
    <<ct_pc, ct_ticker, ct_normalized, ct_renormalized, ct_currency, ct_parsed>>

calibrateVars == <<cs_pc, cs_strikes, cs_market_vols, cs_out>>

toolVars ==
    <<tl_pc, tl_contract, tl_scenarios, tl_scenarios_tuples, tl_core, tl_result, tl_state,
      tl_return>>

otherVars == <<shiftVars, contractVars, calibrateVars, toolVars>>

chainVars == <<ch_pc, ch_chain, ch_fut, ch_out>>

meetingVars == <<mt_pc, mt_currency, mt_file, mt_start, mt_end, mt_out>>

rollVars == <<bd_pc, bd_holidays, bd_base, bd_date>>

tenorVars == <<tn_pc, tn_ccy, tn_ticker, tn_out>>

sessionVars ==
    <<ss_pc, ss_state, ss_artifacts, ss_runs, ss_req, ss_out, ss_prev, ss_saved>>

connectionVars ==
    <<bc_pc, bc_session, bc_stops, bc_conns, bc_events, bc_exc, bc_running>>

earlierVars == <<curveVars, scenarioVars, analysisVars, otherVars>>

vars ==
    <<earlierVars, chainVars, meetingVars, rollVars, tenorVars, sessionVars,
      connectionVars>>

-----------------------------------------------------------------------------
(* Generic helpers *)

RECURSIVE GCD(_, _)
GCD(a, b) == IF b = 0 THEN a ELSE GCD(b, a % b)

Abs(x) == IF x < 0 THEN -x ELSE x

\* An exact fraction in lowest terms with a positive denominator.
Rat(n, d) ==
    LET g == GCD(Abs(n), Abs(d))
        s == IF d < 0 THEN -1 ELSE 1
    IN  [num |-> (s * n) \div g, den |-> (s * d) \div g]

\* A float that is not finite (nan, inf): what a division by zero leaves.
NotFinite == [num |-> 0, den |-> 0]

IsFinite(a) == a.den # 0

FromInt(n) == [num |-> n, den |-> 1]

RAdd(a, b) ==
    IF IsFinite(a) /\ IsFinite(b)
    THEN Rat(a.num * b.den + b.num * a.den, a.den * b.den) ELSE NotFinite

RSub(a, b) ==
    IF IsFinite(a) /\ IsFinite(b)
    THEN Rat(a.num * b.den - b.num * a.den, a.den * b.den) ELSE NotFinite

RMul(a, b) ==
    IF IsFinite(a) /\ IsFinite(b) THEN Rat(a.num * b.num, a.den * b.den) ELSE NotFinite

\* a / b in floating point: a zero divisor gives inf or nan.
RDiv(a, b) ==
    IF IsFinite(a) /\ IsFinite(b) /\ b.num # 0
    THEN Rat(a.num * b.den, a.den * b.num) ELSE NotFinite

\* np.true_divide(a, b, out=zeros, where=b != 0)
GuardedDiv(a, b) == IF IsFinite(b) /\ b.num = 0 THEN FromInt(0) ELSE RDiv(a, b)

\* Comparisons of floats: false whenever an operand is not finite.
RLe(a, b) == IsFinite(a) /\ IsFinite(b) /\ a.num * b.den <= b.num * a.den

RLt(a, b) == IsFinite(a) /\ IsFinite(b) /\ a.num * b.den < b.num * a.den

SetMin(S) == CHOOSE x \in S : \A y \in S : x <= y
SetMax(S) == CHOOSE x \in S : \A y \in S : x >= y

RECURSIVE SortedSeq(_)
SortedSeq(S) ==
    IF S = {} THEN <<>>
    ELSE LET m == SetMin(S) IN <<m>> \o SortedSeq(S \ {m})

RECURSIVE SeqSum(_)
SeqSum(s) == IF s = <<>> THEN 0 ELSE Head(s) + SeqSum(Tail(s))

Range(s) == {s[i] : i \in DOMAIN s}

-----------------------------------------------------------------------------
(* core/scenarios.py: integration of the density over a rate range *)

\* scipy.integrate.simpson, _basic_simpson(y, start, stop, x): the composite
\* rule over the point triples that start at start, start+2, ... (1-based
\* here), for any spacing; its divisions are guarded against zero spacing.
RECURSIVE basic_simpson(_, _, _, _)
basic_simpson(y, x, start, stop) ==
    IF start >= stop THEN FromInt(0)
    ELSE LET h0 == FromInt(x[start + 1] - x[start])
             h1 == FromInt(x[start + 2] - x[start + 1])
             hsum == RAdd(h0, h1)
             hprod == RMul(h0, h1)
             h0divh1 == GuardedDiv(h0, h1)
             tmp == RMul(RDiv(hsum, FromInt(6)),
                      RAdd(RAdd(
                        RMul(y[start], RSub(FromInt(2), GuardedDiv(FromInt(1), h0divh1))),
                        RMul(y[start + 1], RMul(hsum, GuardedDiv(hsum, hprod)))),
                        RMul(y[start + 2], RSub(FromInt(2), h0divh1))))
         IN  RAdd(tmp, basic_simpson(y, x, start + 2, stop))

\* scipy.integrate.simpson(y, x=x) for N >= 2 points: the composite rule for
\* an odd N; for an even N the rule on the first N-1 points plus Cartwright's
\* correction for the last interval (the trapezoid when N = 2).
simpson(y, x) ==
    LET N == Len(y)
    IN  IF N % 2 = 1 THEN basic_simpson(y, x, 1, N - 1)
        ELSE IF N = 2
             THEN RMul(RMul(Rat(1, 2), FromInt(x[2] - x[1])), RAdd(y[2], y[1]))
        ELSE LET h0 == FromInt(x[N - 1] - x[N - 2])
                 h1 == FromInt(x[N] - x[N - 1])
                 alpha == GuardedDiv(
                            RAdd(RMul(FromInt(2), RMul(h1, h1)),
                                 RMul(FromInt(3), RMul(h0, h1))),
                            RMul(FromInt(6), RAdd(h1, h0)))
                 beta  == GuardedDiv(
                            RAdd(RMul(h1, h1), RMul(FromInt(3), RMul(h0, h1))),
                            RMul(FromInt(6), h0))
                 eta   == GuardedDiv(
                            RMul(h1, RMul(h1, h1)),
                            RMul(FromInt(6), RMul(h0, RAdd(h0, h1))))
             IN  RAdd(basic_simpson(y, x, 1, N - 2),
                      RSub(RAdd(RMul(alpha, y[N]), RMul(beta, y[N - 1])),
                           RMul(eta, y[N - 2])))

\* mask = (strikes >= min_rate) & (strikes <= max_rate); strikes[mask]
InRange(strikes, min_rate, max_rate) ==
    {i \in DOMAIN strikes : strikes[i] >= min_rate /\ strikes[i] <= max_rate}

\* arr[mask]: the masked elements in their order.
Masked(arr, mask) ==
    LET idx == SortedSeq(mask) IN [k \in DOMAIN idx |-> arr[idx[k]]]

\* The threshold with >= in place of >: one point inside already integrates.
integrate_rnd_over_range_one_point(strikes, density, min_rate, max_rate) ==
    LET mask == InRange(strikes, min_rate, max_rate)
        filtered_strikes == Masked(strikes, mask)
        filtered_density == Masked(density, mask)
    IN  IF Len(filtered_strikes) >= 1
        THEN [simpson |-> TRUE,
              prob |-> IF Len(filtered_strikes) = 1 THEN filtered_density[1]
                       ELSE simpson(filtered_density, filtered_strikes)]
        ELSE [simpson |-> FALSE, prob |-> FromInt(0)]

\* integrate_rnd_over_range: the value returned, and whether Simpson's rule
\* was evaluated for it.
integrate_rnd_over_range(strikes, density, min_rate, max_rate) ==
    LET mask == InRange(strikes, min_rate, max_rate)
        filtered_strikes == Masked(strikes, mask)
        filtered_density == Masked(density, mask)
    IN  IF Len(filtered_strikes) > 1
        THEN [simpson |-> TRUE, prob |-> simpson(filtered_density, filtered_strikes)]
        ELSE [simpson |-> FALSE, prob |-> FromInt(0)]

\* The loop of compute_scenario_probabilities over the names still to visit:
\* probabilities[scenario_name] = prob.
RECURSIVE scenario_loop(_, _, _, _, _)
scenario_loop(strikes, density, scenarios, todo, probabilities) ==
    IF todo = {} THEN probabilities
    ELSE LET scenario_name == CHOOSE n \in todo : TRUE
             prob == integrate_rnd_over_range(strikes, density,
                         scenarios[scenario_name].min_rate,
                         scenarios[scenario_name].max_rate).prob
         IN  scenario_loop(strikes, density, scenarios, todo \ {scenario_name},
                 [n \in DOMAIN probabilities \cup {scenario_name} |->
                     IF n = scenario_name THEN prob ELSE probabilities[n]])

EmptyDict == [n \in {} |-> 0]

RECURSIVE DictTotal(_, _)
DictTotal(d, names) ==
    IF names = {} THEN FromInt(0)
    ELSE LET n == CHOOSE k \in names : TRUE
         IN  RAdd(d[n], DictTotal(d, names \ {n}))

\* The probabilities divided by their total, so that they sum to 1.
compute_scenario_probabilities_normalised(strikes, density, scenarios) ==
    LET p == scenario_loop(strikes, density, scenarios, DOMAIN scenarios, EmptyDict)
        total == DictTotal(p, DOMAIN p)
    IN  [n \in DOMAIN p |-> GuardedDiv(p[n], total)]

compute_scenario_probabilities(strikes, density, scenarios) ==
    scenario_loop(strikes, density, scenarios, DOMAIN scenarios, EmptyDict)

\* Bounds of the engine's arguments.
MaxStrike == 3
MaxRate == 2
ScenarioNames == {"Cut", "Hold"}
DensityValues == {-1, 2}

Ranges(lo, hi) == {[min_rate |-> a, max_rate |-> b] : a \in lo .. hi, b \in lo .. hi}

\* Strictly increasing grids over 0 .. MaxStrike with a density per point.
GridChoices ==
    {SortedSeq(S) : S \in SUBSET (0 .. MaxStrike)}

DensityChoices(n) == [1 .. n -> {FromInt(v) : v \in DensityValues}]

ScenarioDicts(ranges) ==
    UNION {[names -> ranges] : names \in SUBSET ScenarioNames}

NoProb == [simpson |-> FALSE, prob |-> FromInt(0)]
NoRange == [min_rate |-> 0, max_rate |-> 0]

ScenarioIdle ==
    /\ se_pc = "idle"
    /\ se_strikes = <<>>
    /\ se_density = <<>>
    /\ se_scenarios = EmptyDict
    /\ se_range = NoRange
    /\ se_prob = NoProb
    /\ se_probs = EmptyDict

NoCalib == [forward |-> 0, strikes |-> <<>>, market_vols |-> <<>>]
NoParams == [fit |-> "none", tau |-> FromInt(0), rfr |-> FromInt(0), forward |-> 0]
NoResult == [success |-> FALSE]

\* Everything the call has not computed yet.
AnalysisBlank ==
    /\ an_fut_settle = 0
    /\ an_option_tickers = <<>>
    /\ an_fetched = <<>>
    /\ an_opt_df = <<>>
    /\ an_dte = 0
    /\ an_rfr = FromInt(0)
    /\ an_solver = <<>>
    /\ an_ivol_df = <<>>
    /\ an_calib = NoCalib
    /\ an_sabr_params = NoParams
    /\ an_strikes_price = <<>>
    /\ an_density = <<>>
    /\ an_result = NoResult
    /\ an_error = ""
    /\ an_calls = <<>>

AnalysisIdle ==
    /\ an_pc = "idle"
    /\ an_scenarios = EmptyDict
    /\ an_contract = <<>>
    /\ an_date = <<>>
    /\ AnalysisBlank

ShiftIdle ==
    /\ sh_pc = "idle"
    /\ sh_probs1 = EmptyDict
    /\ sh_probs2 = EmptyDict
    /\ sh_shifts = EmptyDict

NoCurrency == [raised |-> FALSE, currency |-> ""]
NoParse == [month |-> "", year |-> <<>>]

ContractIdle ==
    /\ ct_pc = "idle"
    /\ ct_ticker = <<>>
    /\ ct_normalized = <<>>
    /\ ct_renormalized = <<>>
    /\ ct_currency = NoCurrency
    /\ ct_parsed = NoParse

NoFit == [fit |-> "none", spline |-> [x |-> <<>>, y |-> <<>>, at |-> 0]]

CalibrateIdle ==
    /\ cs_pc = "idle"
    /\ cs_strikes = <<>>
    /\ cs_market_vols = <<>>
    /\ cs_out = NoFit

NoDict == [f \in {} |-> <<>>]

ToolIdle ==
    /\ tl_pc = "idle"
    /\ tl_contract = <<>>
    /\ tl_scenarios = <<>>
    /\ tl_scenarios_tuples = <<>>
    /\ tl_core = NoDict
    /\ tl_result = NoDict
    /\ tl_state = NoDict
    /\ tl_return = NoDict

ChainIdle ==
    /\ ch_pc = "idle"
    /\ ch_chain = <<>>
    /\ ch_fut = 0
    /\ ch_out = <<>>

NoMeetings == [raised |-> "", meetings |-> <<>>, num_meetings |-> 0]

MeetingIdle ==
    /\ mt_pc = "idle"
    /\ mt_currency = ""
    /\ mt_file = [exists |-> FALSE, date_column |-> FALSE, dates |-> <<>>]
    /\ mt_start = <<>>
    /\ mt_end = <<>>
    /\ mt_out = NoMeetings

RollIdle ==
    /\ bd_pc = "idle"
    /\ bd_holidays = {}
    /\ bd_base = 0
    /\ bd_date = 0

NoTenor == [raised |-> FALSE, period_type |-> "", period_value |-> 0]

TenorIdle ==
    /\ tn_pc = "idle"
    /\ tn_ccy = ""
    /\ tn_ticker = <<>>
    /\ tn_out = NoTenor

SessionIdle ==
    /\ ss_pc = "off"
    /\ ss_state = NoDict
    /\ ss_artifacts = {}
    /\ ss_runs = 0
    /\ ss_req = NoDict
    /\ ss_out = NoDict
    /\ ss_prev = NoDict
    /\ ss_saved = <<>>

ConnectionIdle ==
    /\ bc_pc = "idle"
    /\ bc_session = "none"
    /\ bc_stops = 0
    /\ bc_conns = 0
    /\ bc_events = 0
    /\ bc_exc = ""
    /\ bc_running = 0

LaterIdle ==
    /\ ChainIdle /\ MeetingIdle /\ RollIdle /\ TenorIdle /\ SessionIdle
    /\ ConnectionIdle

-----------------------------------------------------------------------------
(* interpolate_discount_rate: the cells of a pandas column *)

NumCell(v) == [k |-> "num", v |-> v]     \* a number
StrCell(v) == [k |-> "str", v |-> v]     \* a string that spells the number v
BadCell    == [k |-> "bad", v |-> 0]     \* a string that spells no number
NaNCell    == [k |-> "nan", v |-> 0]     \* None / NaN

MaxRows == 4

\* The rows a caller's curve is built from: days 1..3 (day 2 with two rates,
\* day 3 given as text), a non-positive day, a missing day, a rate that is
\* no number.
CurveRowChoices ==
    { [DTE |-> NumCell(1), RATE |-> NumCell(2)],
      [DTE |-> NumCell(2), RATE |-> NumCell(2)],
      [DTE |-> NumCell(2), RATE |-> NumCell(6)],
      [DTE |-> StrCell(3), RATE |-> StrCell(4)],
      [DTE |-> NumCell(0), RATE |-> NumCell(2)],
      [DTE |-> NaNCell,    RATE |-> NumCell(4)],
      [DTE |-> NumCell(1), RATE |-> BadCell] }

TargetChoices == 1 .. 3

RECURSIVE SeqsUpTo(_, _)
SeqsUpTo(S, n) ==
    IF n = 0 THEN {<<>>}
    ELSE LET shorter == SeqsUpTo(S, n - 1)
         IN  shorter \cup {Append(s, x) : s \in {t \in shorter : Len(t) = n - 1}, x \in S}

\* df.dropna(subset=['DTE', 'RATE'])
dropna(rows) ==
    SelectSeq(rows, LAMBDA r : r.DTE.k # "nan" /\ r.RATE.k # "nan")

\* pd.to_numeric(col, errors='coerce') on one cell
to_numeric(c) == IF c.k \in {"num", "str"} THEN NumCell(c.v) ELSE NaNCell

coerce_numeric(rows) ==
    [i \in DOMAIN rows |->
        [DTE |-> to_numeric(rows[i].DTE), RATE |-> to_numeric(rows[i].RATE)]]

positive_dte_keeps_zero(rows) == SelectSeq(rows, LAMBDA r : r.DTE.v >= 0)

\* df[df['DTE'] > 0]
positive_dte(rows) == SelectSeq(rows, LAMBDA r : r.DTE.v > 0)

\* .first() in place of .mean(): the rate of the first row of the group.
group_first(rows, d) ==
    Rat(SelectSeq(rows, LAMBDA r : r.DTE.v = d)[1].RATE.v, 1)

\* The mean of the RATE cells of the rows whose DTE is d.
group_mean(rows, d) ==
    LET grp == SelectSeq(rows, LAMBDA r : r.DTE.v = d)
        rates == [i \in DOMAIN grp |-> grp[i].RATE.v]
    IN  Rat(SeqSum(rates), Len(grp))

\* df.groupby('DTE', as_index=False)['RATE'].mean().sort_values('DTE')
groupby_mean_sorted(rows) ==
    LET days == SortedSeq({rows[i].DTE.v : i \in DOMAIN rows})
    IN  [i \in DOMAIN days |-> [DTE |-> days[i], RATE |-> group_mean(rows, days[i])]]

\* Lines 35-53: the whole cleaning pipeline.
clean_curve(rows) ==
    groupby_mean_sorted(positive_dte(dropna(coerce_numeric(dropna(rows)))))

\* scipy.interpolate.CubicSpline(x, y)(t): an external function of its
\* arguments, kept as a term.
CubicSpline(x, y, t) == [x |-> x, y |-> y, at |-> t]

NoSpline == [x |-> <<>>, y |-> <<>>, at |-> 0]

Returned(via, rate, spl) ==
    [kind |-> "rate", via |-> via, rate |-> rate, spline |-> spl]

Raised(msg) ==
    [kind |-> "raise", via |-> msg, rate |-> Rat(0, 1), spline |-> NoSpline]

NoOutcome == [kind |-> "none", via |-> "", rate |-> Rat(0, 1), spline |-> NoSpline]

\* The boundary tests with < and > in place of <= and >=.
clamp_or_spline_strict(frame, t) ==
    LET dte_min == SetMin({frame[i].DTE : i \in DOMAIN frame})
        dte_max == SetMax({frame[i].DTE : i \in DOMAIN frame})
    IN  IF t < dte_min THEN Returned("clamp_min", frame[1].RATE, NoSpline)
        ELSE IF t > dte_max THEN Returned("clamp_max", frame[Len(frame)].RATE, NoSpline)
        ELSE Returned("spline", Rat(0, 1),
                      CubicSpline([i \in DOMAIN frame |-> frame[i].DTE],
                                  [i \in DOMAIN frame |-> frame[i].RATE], t))

\* Lines 59-75: clamp at the boundaries, otherwise evaluate the spline.
clamp_or_spline(frame, t) ==
    LET dte_min == SetMin({frame[i].DTE : i \in DOMAIN frame})
        dte_max == SetMax({frame[i].DTE : i \in DOMAIN frame})
    IN  IF t <= dte_min THEN Returned("clamp_min", frame[1].RATE, NoSpline)
        ELSE IF t >= dte_max THEN Returned("clamp_max", frame[Len(frame)].RATE, NoSpline)
        ELSE Returned("spline", Rat(0, 1),
                      CubicSpline([i \in DOMAIN frame |-> frame[i].DTE],
                                  [i \in DOMAIN frame |-> frame[i].RATE], t))

MinCurvePoints == 2

OutsideCurve ==
    UNCHANGED <<scenarioVars, analysisVars, otherVars, chainVars, meetingVars, rollVars, tenorVars, sessionVars,
                connectionVars>>

CurveInit ==
    /\ cv_pc = "call"
    /\ curve_df \in
         {[columns_ok |-> TRUE, rows |-> r] : r \in SeqsUpTo(CurveRowChoices, MaxRows)}
         \cup {[columns_ok |-> FALSE, rows |-> <<>>]}
    /\ target_dte \in TargetChoices
    /\ df = <<>>
    /\ cv_out = NoOutcome
    /\ cv_prev = [df |-> <<>>, out |-> NoOutcome]
    /\ cv_rel = "fresh"
    /\ ScenarioIdle
    /\ AnalysisIdle
    /\ ShiftIdle /\ ContractIdle /\ CalibrateIdle /\ ToolIdle
    /\ LaterIdle

\* Lines 31-53: the column check and the cleaning.
CleanCurve ==
    /\ cv_pc = "call"
    /\ IF ~curve_df.columns_ok
       THEN /\ cv_pc' = "raised"
            /\ cv_out' = Raised("missing columns")
            /\ df' = <<>>
       ELSE /\ cv_pc' = "cleaned"
            /\ df' = clean_curve(curve_df.rows)
            /\ cv_out' = cv_out
    /\ UNCHANGED <<curve_df, target_dte, cv_prev, cv_rel>>
    /\ OutsideCurve

\* Lines 56-57: at least 2 points, or ValueError.
CheckPoints ==
    /\ cv_pc = "cleaned"
    /\ IF Len(df) < MinCurvePoints
       THEN /\ cv_pc' = "raised"
            /\ cv_out' = Raised("not enough points")
       ELSE /\ cv_pc' = "bounds"
            /\ cv_out' = cv_out
    /\ UNCHANGED <<curve_df, target_dte, df, cv_prev, cv_rel>>
    /\ OutsideCurve

\* Lines 60-75.
ClampOrSpline ==
    /\ cv_pc = "bounds"
    /\ cv_out' = clamp_or_spline(df, target_dte)
    /\ cv_pc' = "returned"
    /\ UNCHANGED <<curve_df, target_dte, df, cv_prev, cv_rel>>
    /\ OutsideCurve

CallDone == cv_pc \in {"returned", "raised"}

Swap(s, i, j) ==
    [k \in DOMAIN s |-> IF k = i THEN s[j] ELSE IF k = j THEN s[i] ELSE s[k]]

NextCall(rows, rel) ==
    /\ curve_df' = [curve_df EXCEPT !.rows = rows]
    /\ cv_prev' = [df |-> df, out |-> cv_out]
    /\ cv_rel' = rel
    /\ cv_pc' = "call"
    /\ df' = <<>>
    /\ cv_out' = NoOutcome
    /\ UNCHANGED target_dte
    /\ OutsideCurve

\* The caller calls again with two rows of the same frame exchanged.
CallPermuted ==
    /\ CallDone
    /\ curve_df.columns_ok
    /\ \E i, j \in DOMAIN curve_df.rows :
         /\ i < j
         /\ curve_df.rows[i] # curve_df.rows[j]
         /\ NextCall(Swap(curve_df.rows, i, j), "permuted")

\* The caller calls again with one existing row repeated.
CallDuplicated ==
    /\ CallDone
    /\ curve_df.columns_ok
    /\ Len(curve_df.rows) < MaxRows
    /\ \E i \in DOMAIN curve_df.rows :
         NextCall(Append(curve_df.rows, curve_df.rows[i]), "duplicated")

CurveNext == CleanCurve \/ CheckPoints \/ ClampOrSpline \/ CallPermuted \/ CallDuplicated

SpecCurve == CurveInit /\ [][CurveNext]_vars

CurveIdle ==
    /\ cv_pc = "idle"
    /\ curve_df = [columns_ok |-> TRUE, rows |-> <<>>]
    /\ target_dte = 0
    /\ df = <<>>
    /\ cv_out = NoOutcome
    /\ cv_prev = [df |-> <<>>, out |-> NoOutcome]
    /\ cv_rel = "fresh"

EarlierIdle ==
    /\ CurveIdle /\ ScenarioIdle /\ AnalysisIdle
    /\ ShiftIdle /\ ContractIdle /\ CalibrateIdle /\ ToolIdle

-----------------------------------------------------------------------------
(* The scenario engine applied to chosen arguments *)

OutsideScenarios ==
    UNCHANGED <<curveVars, analysisVars, otherVars, chainVars, meetingVars, rollVars, tenorVars, sessionVars,
                connectionVars>>

ScenarioInit ==
    /\ se_pc = "args"
    /\ se_strikes \in GridChoices
    /\ se_density \in DensityChoices(Len(se_strikes))
    /\ se_scenarios \in ScenarioDicts({r \in Ranges(0, MaxRate) : r.min_rate <= r.max_rate})
    /\ se_range = NoRange
    /\ se_prob = NoProb
    /\ se_probs = EmptyDict
    /\ CurveIdle
    /\ AnalysisIdle
    /\ ShiftIdle /\ ContractIdle /\ CalibrateIdle /\ ToolIdle
    /\ LaterIdle

\* A call integrate_rnd_over_range(strikes, density, min_rate, max_rate);
\* the range may be inverted (min_rate > max_rate).
Integrate ==
    /\ se_pc = "args"
    /\ \E r \in Ranges(0, MaxRate) :
         /\ se_range' = r
         /\ se_prob' = integrate_rnd_over_range(se_strikes, se_density,
                                                r.min_rate, r.max_rate)
    /\ se_pc' = "integrated"
    /\ UNCHANGED <<se_strikes, se_density, se_scenarios, se_probs>>
    /\ OutsideScenarios

\* A call compute_scenario_probabilities(strikes, density, scenarios).
ComputeProbabilities ==
    /\ se_pc = "args"
    /\ se_probs' = compute_scenario_probabilities(se_strikes, se_density, se_scenarios)
    /\ se_pc' = "computed"
    /\ UNCHANGED <<se_strikes, se_density, se_scenarios, se_range, se_prob>>
    /\ OutsideScenarios

ScenarioNext == Integrate \/ ComputeProbabilities

SpecScenarios == ScenarioInit /\ [][ScenarioNext]_vars

-----------------------------------------------------------------------------
(* core/contracts.py: tickers as sequences of one-character strings *)

LowerCase ==
    <<"a", "b", "c", "d", "e", "f", "g", "h", "i", "j", "k", "l", "m",
      "n", "o", "p", "q", "r", "s", "t", "u", "v", "w", "x", "y", "z">>

UpperCase ==
    <<"A", "B", "C", "D", "E", "F", "G", "H", "I", "J", "K", "L", "M",
      "N", "O", "P", "Q", "R", "S", "T", "U", "V", "W", "X", "Y", "Z">>

\* str.upper() on one character: a lowercase letter becomes its capital,
\* every other character (capital, digit, space, '-') is kept.
char_upper(c) ==
    IF \E i \in DOMAIN LowerCase : LowerCase[i] = c
    THEN UpperCase[CHOOSE i \in DOMAIN LowerCase : LowerCase[i] = c]
    ELSE c

str_upper(s) == [i \in 1 .. Len(s) |-> char_upper(s[i])]

RECURSIVE str_lstrip(_)
str_lstrip(s) ==
    IF s # <<>> /\ Head(s) = " " THEN str_lstrip(Tail(s)) ELSE s

RECURSIVE str_rstrip(_)
str_rstrip(s) ==
    IF s # <<>> /\ s[Len(s)] = " "
    THEN str_rstrip(SubSeq(s, 1, Len(s) - 1))
    ELSE s

\* str.strip()
str_strip(s) == str_rstrip(str_lstrip(s))

\* sub in s
str_in(sub, s) ==
    \E i \in 0 .. (Len(s) - Len(sub)) : SubSeq(s, i + 1, i + Len(sub)) = sub

\* s.startswith(p)
startswith(s, p) == Len(s) >= Len(p) /\ SubSeq(s, 1, Len(p)) = p

\* s[:n]
str_head(s, n) == SubSeq(s, 1, IF Len(s) < n THEN Len(s) ELSE n)

COMDTY == <<"C", "O", "M", "D", "T", "Y">>
COMB == <<"C", "O", "M", "B">>
Comdty == <<"C", "o", "m", "d", "t", "y">>

\* Lines 3-8.
normalize_ticker(ticker) ==
    LET t == str_strip(str_upper(ticker))
    IN  IF    /\ ~ str_in(<<" ">> \o COMDTY, t)
              /\ ~ str_in(<<" ">> \o COMB \o <<" ">>, t)
              /\ ~ (str_in(COMDTY, t) \/ str_in(COMB, t))
        THEN t \o <<" ">> \o Comdty
        ELSE t

CurrencyOf(c) == [raised |-> FALSE, currency |-> c]
CannotInfer == [raised |-> TRUE, currency |-> ""]

\* Lines 11-22, with only two letters of SFR compared.
infer_currency_two_letters(ticker) ==
    LET t == str_strip(str_upper(ticker))
        prefix == str_head(t, 3)
    IN  IF startswith(prefix, <<"S", "F">>) THEN CurrencyOf("USD")
        ELSE IF startswith(prefix, <<"E", "R">>) THEN CurrencyOf("EUR")
        ELSE IF startswith(prefix, <<"S", "F", "I">>) THEN CurrencyOf("GBP")
        ELSE CannotInfer

\* Lines 11-22.
infer_currency(ticker) ==
    LET t == str_strip(str_upper(ticker))
        prefix == str_head(t, 3)
    IN  IF startswith(prefix, <<"S", "F", "R">>) THEN CurrencyOf("USD")
        ELSE IF startswith(prefix, <<"E", "R">>) THEN CurrencyOf("EUR")
        ELSE IF startswith(prefix, <<"S", "F", "I">>) THEN CurrencyOf("GBP")
        ELSE CannotInfer

\* Lines 28-33.
month_map ==
    [c \in {"F", "G", "H", "J", "K", "M", "N", "Q", "U", "V", "X", "Z"} |->
        CASE c = "F" -> "January"   [] c = "G" -> "February"
          [] c = "H" -> "March"     [] c = "J" -> "April"
          [] c = "K" -> "May"       [] c = "M" -> "June"
          [] c = "N" -> "July"      [] c = "Q" -> "August"
          [] c = "U" -> "September" [] c = "V" -> "October"
          [] c = "X" -> "November"  [] c = "Z" -> "December"]

UnknownYear == <<"U", "n", "k", "n", "o", "w", "n">>
Decade == <<"2", "0", "2">>

\* Lines 25-44, reading the month code one character early.
parse_contract_code_shifted(ticker) ==
    LET t == str_strip(str_upper(ticker))
    IN  IF Len(t) >= 5
        THEN [month |-> IF t[3] \in DOMAIN month_map
                        THEN month_map[t[3]] ELSE "Unknown",
              year  |-> Decade \o <<t[4]>>]
        ELSE [month |-> "Unknown", year |-> UnknownYear]

\* Lines 25-44.  Python's ticker[3] and ticker[4] are the fourth and the
\* fifth character.
parse_contract_code(ticker) ==
    LET t == str_strip(str_upper(ticker))
    IN  IF Len(t) >= 5
        THEN [month |-> IF t[4] \in DOMAIN month_map
                        THEN month_map[t[4]] ELSE "Unknown",
              year  |-> Decade \o <<t[5]>>]
        ELSE [month |-> "Unknown", year |-> UnknownYear]

-----------------------------------------------------------------------------
(* core/stir_analysis.py: floating point at the magnitude of a price *)

\* A binary float with a short mantissa.  Every price 100 - rate of this
\* model lies in one binade, where the floats are the multiples of Quantum
\* fine units; a rate, an order of magnitude smaller, is exact to the unit.
Quantum == 4

\* 100.0 in fine units.
Hundred == 400

\* The float nearest to a non-negative fraction at that magnitude: the
\* nearest multiple of Quantum, a tie going to the even multiple.
RoundToQuantum(x) ==
    LET unit == x.den * Quantum
        q == x.num \div unit
        twice_rest == 2 * (x.num - q * unit)
    IN  IF twice_rest < unit THEN q * Quantum
        ELSE IF twice_rest > unit THEN (q + 1) * Quantum
        ELSE IF q % 2 = 0 THEN q * Quantum
        ELSE (q + 1) * Quantum

\* 100 - max_rate, 100 - min_rate (lines 117-118): the exact difference
\* rounded to a float.
hundred_minus_rate(rate) == RoundToQuantum(FromInt(Hundred - rate))

\* 100 - fut_settle, 100 - strikes_price (lines 53, 123): both operands and
\* the difference are floats of the price binade or below, so it is exact.
hundred_minus_price(price) == Hundred - price

-----------------------------------------------------------------------------
(* core/market_data.py: what the data service hands back *)

\* fetch_historical_data: an empty frame, or a frame with one price.
NoData == [empty |-> TRUE, px |-> 0]
Quote(v) == [empty |-> FALSE, px |-> v]

\* The most option tickers the chain request returns.
MaxQuotes == 6

\* min_settlement_price = 0.02, in units of 0.01.
MinSettlementPrice == 2

\* len(opt_df) < 5
MinOptions == 5

\* The settlement of the future: 93.00.
FutChoices == {Hundred - 7 * Quantum}

\* The strike of the i-th listed option, one float apart, around the future.
ChainStrike(i) == Hundred - Quantum * (11 - i)

\* The option settlements on offer: just below the floor, and at the floor.
SettlementChoices == {MinSettlementPrice - 1, MinSettlementPrice}

\* The test fut_settlement >= strike turned round: a call at or below the
\* future's settlement and a put above it.
get_option_chain_filtered_itm(fut_settlement, strike_list) ==
    LET strikes == SortedSeq(strike_list)
    IN  [i \in DOMAIN strikes |->
            [type |-> IF fut_settlement >= strikes[i] THEN "call" ELSE "put",
             strike |-> strikes[i]]]

\* get_option_chain_filtered: strikes = sorted(set(strike_list)), a put at or
\* below the future's settlement and a call above it.
get_option_chain_filtered(fut_settlement, strike_list) ==
    LET strikes == SortedSeq(strike_list)
    IN  [i \in DOMAIN strikes |->
            [type |-> IF fut_settlement >= strikes[i] THEN "put" ELSE "call",
             strike |-> strikes[i]]]

\* get_option_settlements: one row per ticker whose price frame is not empty.
get_option_settlements(option_tickers, px) ==
    LET kept == SelectSeq([i \in DOMAIN option_tickers |-> i],
                          LAMBDA i : ~px[i].empty)
    IN  [k \in DOMAIN kept |->
            [CODE |-> kept[k],
             OPTION_TYPE |-> option_tickers[kept[k]].type,
             STRIKE |-> option_tickers[kept[k]].strike,
             SETTLEMENT |-> px[kept[k]].px]]

-----------------------------------------------------------------------------
(* core/stir_analysis.py: the two filters of opt_df *)

\* The filter with > in place of >=.
settlement_floor_strict(opt_df, min_settlement_price) ==
    SelectSeq(opt_df, LAMBDA row : row.SETTLEMENT > min_settlement_price)

\* opt_df[opt_df['SETTLEMENT'] >= min_settlement_price]
settlement_floor(opt_df, min_settlement_price) ==
    SelectSeq(opt_df, LAMBDA row : row.SETTLEMENT >= min_settlement_price)

\* The filter with >= in place of >.
positive_ivol_keeps_zero(opt_df) == SelectSeq(opt_df, LAMBDA row : row.IVOL >= 0)

\* opt_df[opt_df['IVOL'] > 0]
positive_ivol(opt_df) == SelectSeq(opt_df, LAMBDA row : row.IVOL > 0)

\* v * 100, iv * 100, rate / 100
Percent == 100

\* tau = dte / 365.0
DaysPerYear == 365

-----------------------------------------------------------------------------
(* core/sabr_calibration.py *)

\* py_vollib's implied_volatility: it raises, or returns a volatility.
SolverRaised == [raised |-> TRUE, iv |-> 0]
SolverReturned(iv) == [raised |-> FALSE, iv |-> iv]
SolverChoices == {SolverRaised, SolverReturned(1)}

\* calculate_implied_vol: iv * 100, or 0.0 when the solver raised.
calculate_implied_vol(solved) ==
    IF solved.raised THEN 0 ELSE solved.iv * Percent

\* Hagan2002LognormalSABR.fit: the smile it settles on gives call prices
\* convex in the strike, or (the expansion is not arbitrage-free) not convex.
FitChoices == {"convex", "not_convex"}

-----------------------------------------------------------------------------
(* core/rnd_engine.py *)

\* grid_points; the program's default is 500.
GridPoints == 5

\* np.linspace(start, stop, num): start + i * step rounded to a float, the
\* last point set to stop.
linspace(start, stop, num) ==
    LET div == num - 1
        step == Rat(stop - start, div)
    IN  [i \in 1 .. num |->
            IF i = num THEN stop
            ELSE RoundToQuantum(RAdd(RMul(FromInt(i - 1), step), FromInt(start)))]

\* np.exp: kept by its order relative to 1.
np_exp(x) ==
    IF x.num = 0 THEN FromInt(1)
    ELSE IF x.num > 0 THEN Rat(3, 2)
    ELSE Rat(2, 3)

\* black.lognormal_call under the fitted smile: the discounted price of a
\* call at strike k, convex in k or not.
lognormal_call(sabr_params, k) ==
    LET discount == RDiv(FromInt(1), np_exp(RMul(sabr_params.tau, sabr_params.rfr)))
        f == sabr_params.forward
        undiscounted ==
            IF sabr_params.fit = "convex"
            THEN (IF f > k THEN f - k ELSE 0)
            ELSE (IF k > f THEN Hundred - k ELSE Hundred - f)
    IN  RMul(discount, FromInt(undiscounted))

\* np.gradient(f, x), edge_order 1: one-sided differences at the two ends;
\* inside, the central difference for a uniform spacing and the weighted
\* three-point formula otherwise.  A zero spacing divides by zero.
np_gradient(f, x) ==
    LET N == Len(f)
        dx == [i \in 1 .. N - 1 |-> FromInt(x[i + 1] - x[i])]
        uniform == \A i \in 1 .. N - 1 : dx[i] = dx[1]
        interior(i) ==
            IF uniform
            THEN RDiv(RSub(f[i + 1], f[i - 1]), RMul(FromInt(2), dx[1]))
            ELSE LET dx1 == dx[i - 1]
                     dx2 == dx[i]
                     a == RDiv(RSub(FromInt(0), dx2), RMul(dx1, RAdd(dx1, dx2)))
                     b == RDiv(RSub(dx2, dx1), RMul(dx1, dx2))
                     c == RDiv(dx1, RMul(dx2, RAdd(dx1, dx2)))
                 IN  RAdd(RAdd(RMul(a, f[i - 1]), RMul(b, f[i])), RMul(c, f[i + 1]))
    IN  [i \in 1 .. N |->
            IF i = 1 THEN RDiv(RSub(f[2], f[1]), dx[1])
            ELSE IF i = N THEN RDiv(RSub(f[N], f[N - 1]), dx[N - 1])
            ELSE interior(i)]

\* generate_rnd: the price grid and the second strike-derivative of the call
\* prices on it, times exp(tau * rfr).
generate_rnd(sabr_params, min_strike, max_strike, grid_points) ==
    LET strikes == linspace(min_strike, max_strike, grid_points)
        bs_calls == [i \in DOMAIN strikes |-> lognormal_call(sabr_params, strikes[i])]
        first_grad == np_gradient(bs_calls, strikes)
        second_grad == np_gradient(first_grad, strikes)
        growth == np_exp(RMul(sabr_params.tau, sabr_params.rfr))
    IN  [strikes |-> strikes,
         rnd |-> [i \in DOMAIN strikes |-> RMul(second_grad[i], growth)]]

-----------------------------------------------------------------------------
(* core/stir_analysis.py: analyze_stir_contract *)

\* interpolate_discount_rate as one call.
interpolate_discount_rate(curve, t) ==
    IF ~curve.columns_ok THEN Raised("missing columns")
    ELSE LET frame == clean_curve(curve.rows)
         IN  IF Len(frame) < MinCurvePoints THEN Raised("not enough points")
             ELSE clamp_or_spline(frame, t)

np_flip(arr) == [i \in DOMAIN arr |-> arr[Len(arr) + 1 - i]]

\* Only the strikes reversed.
rate_space_strikes_only(strikes_price, density) ==
    [strikes |-> np_flip([i \in DOMAIN strikes_price |->
                             hundred_minus_price(strikes_price[i])]),
     density |-> density]

\* Lines 123-125: strikes_rate = flip(100 - strikes_price), density = flip(density)
rate_space(strikes_price, density) ==
    [strikes |-> np_flip([i \in DOMAIN strikes_price |->
                             hundred_minus_price(strikes_price[i])]),
     density |-> np_flip(density)]

\* all_rates = [r for scenario_range in scenarios.values() for r in scenario_range]
all_rates_of(scenarios) ==
    UNION {{scenarios[n].min_rate, scenarios[n].max_rate} : n \in DOMAIN scenarios}

\* The boundary rates a request is made of: a rate that is no float after
\* 100 - rate, its neighbour that is, and a rate a full grid away.
RateStep == Quantum * (GridPoints - 1)
RequestRates == {RateStep - 1, RateStep, 2 * RateStep}

RequestRanges ==
    {[min_rate |-> a, max_rate |-> b] : a \in RequestRates, b \in RequestRates}

\* The discount curves on offer (two clean points, or one) and the days from
\* the analysis date to the option's expiry; both make the curve clamp.
AnalysisCurves ==
    { [columns_ok |-> TRUE,
       rows |-> << [DTE |-> NumCell(1), RATE |-> NumCell(2)],
                   [DTE |-> NumCell(2), RATE |-> NumCell(2)] >>],
      [columns_ok |-> TRUE,
       rows |-> << [DTE |-> NumCell(1), RATE |-> NumCell(2)] >>] }

DteChoices == {0, 3}

OutsideAnalysis ==
    UNCHANGED <<curveVars, scenarioVars, otherVars, chainVars, meetingVars, rollVars, tenorVars, sessionVars,
                connectionVars>>

\* The contracts asked for: one of a supported family, one of none.
ContractChoices ==
    { <<"S", "F", "R", "Z", "6">>, <<"X", "Y", "Z", "1", "2">> }

\* The dates asked for: one in YYYYMMDD form, one with dashes.
DateChoices ==
    { <<"2", "0", "2", "4", "1", "0", "1", "8">>,
      <<"2", "0", "2", "4", "-", "1", "0", "-", "1", "8">> }

Digits == <<"0", "1", "2", "3", "4", "5", "6", "7", "8", "9">>

IsDigit(c) == \E i \in DOMAIN Digits : Digits[i] = c

DigitValue(c) == (CHOOSE i \in DOMAIN Digits : Digits[i] = c) - 1

\* datetime.strptime(date, "%Y%m%d") on a string of eight characters: four
\* digits of year, two of month, two of day; anything else is a ValueError.
strptime_raises(date) ==
    ~ ( /\ Len(date) = 8
        /\ \A i \in DOMAIN date : IsDigit(date[i])
        /\ LET month == DigitValue(date[5]) * Len(Digits) + DigitValue(date[6])
               day   == DigitValue(date[7]) * Len(Digits) + DigitValue(date[8])
           IN  /\ month \in 1 .. 12
               /\ day \in 1 .. 31 )

AnalysisInit ==
    /\ an_pc = "start"
    /\ an_scenarios \in ScenarioDicts({r \in RequestRanges : r.min_rate <= r.max_rate})
    /\ an_contract \in ContractChoices
    /\ an_date \in DateChoices
    /\ AnalysisBlank
    /\ CurveIdle
    /\ ScenarioIdle
    /\ ShiftIdle /\ ContractIdle /\ CalibrateIdle /\ ToolIdle
    /\ LaterIdle

Fail(msg) == an_pc' = "raised" /\ an_error' = msg

Goto(pc) == an_pc' = pc /\ an_error' = an_error

\* A call that leaves the process for market data, in the order made.
Called(name) == an_calls' = Append(an_calls, name)

\* Lines 47-48.  The date is not looked at.
NormalizeAndInfer ==
    /\ an_pc = "start"
    /\ LET normalized_ticker == normalize_ticker(an_contract)
           currency == infer_currency(normalized_ticker)
       IN  IF currency.raised
           THEN Fail("Cannot infer currency")
           ELSE Goto("futures")
    /\ UNCHANGED <<an_scenarios, an_fut_settle, an_option_tickers, an_fetched,
                   an_opt_df, an_dte, an_rfr, an_solver, an_ivol_df, an_calib,
                   an_sabr_params, an_strikes_price, an_density, an_result,
                   an_contract, an_date, an_calls>>
    /\ OutsideAnalysis

\* Lines 51-53: get_futures_settlement sends the request with the date as
\* it was given.
GetFuturesSettlement ==
    /\ an_pc = "futures"
    /\ Called("futures")
    /\ \E px \in {NoData} \cup {Quote(v) : v \in FutChoices} :
         IF px.empty
         THEN Fail("No settlement data") /\ an_fut_settle' = an_fut_settle
         ELSE Goto("chain") /\ an_fut_settle' = px.px
    /\ UNCHANGED <<an_scenarios, an_option_tickers, an_fetched, an_opt_df, an_dte,
                   an_rfr, an_solver, an_ivol_df, an_calib, an_sabr_params,
                   an_strikes_price, an_density, an_result, an_contract, an_date>>
    /\ OutsideAnalysis

\* Lines 56-59.
GetOptionChain ==
    /\ an_pc = "chain"
    /\ \E n \in 0 .. MaxQuotes :
         LET option_tickers ==
                 get_option_chain_filtered(an_fut_settle,
                                           {ChainStrike(i) : i \in 1 .. n})
         IN  /\ an_option_tickers' = option_tickers
             /\ IF Len(option_tickers) = 0
                THEN Fail("No options found")
                ELSE Goto("settlements")
    /\ Called("chain")
    /\ UNCHANGED <<an_scenarios, an_fut_settle, an_fetched, an_opt_df, an_dte,
                   an_rfr, an_solver, an_ivol_df, an_calib, an_sabr_params,
                   an_strikes_price, an_density, an_result, an_contract, an_date>>
    /\ OutsideAnalysis

\* Lines 62-66.
GetOptionSettlements ==
    /\ an_pc = "settlements"
    /\ \E px \in [DOMAIN an_option_tickers ->
                     {NoData} \cup {Quote(v) : v \in SettlementChoices}] :
         LET fetched == get_option_settlements(an_option_tickers, px)
             opt_df == settlement_floor(fetched, MinSettlementPrice)
         IN  /\ an_fetched' = fetched
             /\ an_opt_df' = opt_df
             /\ IF Len(opt_df) < MinOptions
                THEN Fail("Insufficient options")
                ELSE Goto("curve")
    /\ Called("settlements")
    /\ UNCHANGED <<an_scenarios, an_fut_settle, an_option_tickers, an_dte,
                   an_rfr, an_solver, an_ivol_df, an_calib, an_sabr_params,
                   an_strikes_price, an_density, an_result, an_contract, an_date>>
    /\ OutsideAnalysis

\* Lines 69-82.  get_discount_curve opens its connection (market_data.py
\* line 106) and only then parses the date (line 114), the first place the
\* date's form is looked at; the expiry is fetched after the curve.
GetCurveAndExpiry ==
    /\ an_pc = "curve"
    /\ IF strptime_raises(an_date)
       THEN /\ Called("curve")
            /\ Fail("time data does not match format")
            /\ UNCHANGED <<an_dte, an_rfr>>
       ELSE /\ an_calls' = an_calls \o <<"curve", "expiry">>
            /\ \E curve \in AnalysisCurves, dte \in DteChoices :
                 LET out == interpolate_discount_rate(curve, dte)
                 IN  /\ an_dte' = dte
                     /\ IF out.kind = "raise"
                        THEN Fail(out.via) /\ an_rfr' = an_rfr
                        ELSE Goto("ivols")
                             /\ an_rfr' = RDiv(out.rate, FromInt(Percent))
    /\ UNCHANGED <<an_scenarios, an_fut_settle, an_option_tickers, an_fetched,
                   an_opt_df, an_solver, an_ivol_df, an_calib, an_sabr_params,
                   an_strikes_price, an_density, an_result, an_contract, an_date>>
    /\ OutsideAnalysis

\* Lines 85-101.
ImpliedVols ==
    /\ an_pc = "ivols"
    /\ \E solved \in [DOMAIN an_opt_df -> SolverChoices] :
         LET implied_vols ==
                 [i \in DOMAIN an_opt_df |-> calculate_implied_vol(solved[i])]
             with_ivol ==
                 [i \in DOMAIN an_opt_df |->
                     [CODE |-> an_opt_df[i].CODE,
                      OPTION_TYPE |-> an_opt_df[i].OPTION_TYPE,
                      STRIKE |-> an_opt_df[i].STRIKE,
                      SETTLEMENT |-> an_opt_df[i].SETTLEMENT,
                      IVOL |-> implied_vols[i]]]
             opt_df == positive_ivol(with_ivol)
         IN  /\ an_solver' = solved
             /\ an_ivol_df' = with_ivol
             /\ an_opt_df' = opt_df
             /\ IF Len(opt_df) < MinOptions
                THEN Fail("Insufficient options after IV calculation")
                ELSE Goto("calibrate")
    /\ UNCHANGED <<an_scenarios, an_fut_settle, an_option_tickers, an_fetched,
                   an_dte, an_rfr, an_calib, an_sabr_params,
                   an_strikes_price, an_density, an_result, an_contract, an_date,
                   an_calls>>
    /\ OutsideAnalysis

\* Lines 104-110: calibrate_sabr raises, or returns the fitted parameters.
CalibrateSabr ==
    /\ an_pc = "calibrate"
    /\ an_calib' = [forward |-> an_fut_settle,
                    strikes |-> [i \in DOMAIN an_opt_df |-> an_opt_df[i].STRIKE],
                    market_vols |-> [i \in DOMAIN an_opt_df |-> an_opt_df[i].IVOL]]
    /\ \E fit \in FitChoices \cup {"raise"} :
         IF fit = "raise"
         THEN Fail("calibration failed") /\ an_sabr_params' = an_sabr_params
         ELSE /\ Goto("rnd")
              /\ an_sabr_params' = [fit |-> fit,
                                    tau |-> Rat(an_dte, DaysPerYear),
                                    rfr |-> an_rfr,
                                    forward |-> an_fut_settle]
    /\ UNCHANGED <<an_scenarios, an_fut_settle, an_option_tickers, an_fetched,
                   an_opt_df, an_dte, an_rfr, an_solver, an_ivol_df,
                   an_strikes_price, an_density, an_result, an_contract, an_date,
                   an_calls>>
    /\ OutsideAnalysis

\* Lines 113-120; min(all_rates) raises ValueError when there is no rate.
GenerateRnd ==
    /\ an_pc = "rnd"
    /\ LET all_rates == all_rates_of(an_scenarios)
       IN  IF all_rates = {}
           THEN /\ Fail("no scenario rates")
                /\ UNCHANGED <<an_strikes_price, an_density>>
           ELSE LET min_rate == SetMin(all_rates)
                    max_rate == SetMax(all_rates)
                    min_price_strike == hundred_minus_rate(max_rate)
                    max_price_strike == hundred_minus_rate(min_rate)
                    grid == generate_rnd(an_sabr_params, min_price_strike,
                                         max_price_strike, GridPoints)
                IN  /\ an_strikes_price' = grid.strikes
                    /\ an_density' = grid.rnd
                    /\ Goto("finish")
    /\ UNCHANGED <<an_scenarios, an_fut_settle, an_option_tickers, an_fetched,
                   an_opt_df, an_dte, an_rfr, an_solver, an_ivol_df, an_calib,
                   an_sabr_params, an_result, an_contract, an_date, an_calls>>
    /\ OutsideAnalysis

\* Lines 123-155.
Finish ==
    /\ an_pc = "finish"
    /\ LET flipped == rate_space(an_strikes_price, an_density)
           probabilities ==
               compute_scenario_probabilities(flipped.strikes, flipped.density,
                                              an_scenarios)
           probabilities_pct ==
               [k \in DOMAIN probabilities |->
                   RMul(probabilities[k], FromInt(Percent))]
       IN  an_result' =
               [success |-> TRUE,
                futures_settlement |-> an_fut_settle,
                forward_rate |-> hundred_minus_price(an_fut_settle),
                sabr_parameters |-> an_sabr_params,
                rnd_data |-> [strikes |-> flipped.strikes,
                              density |-> flipped.density],
                scenarios |-> an_scenarios,
                scenario_probabilities |-> probabilities,
                scenario_probabilities_pct |-> probabilities_pct,
                num_options_used |-> Len(an_opt_df)]
    /\ Goto("returned")
    /\ UNCHANGED <<an_scenarios, an_fut_settle, an_option_tickers, an_fetched,
                   an_opt_df, an_dte, an_rfr, an_solver, an_ivol_df, an_calib,
                   an_sabr_params, an_strikes_price, an_density, an_contract,
                   an_date, an_calls>>
    /\ OutsideAnalysis

AnalysisNext ==
    \/ NormalizeAndInfer
    \/ GetFuturesSettlement
    \/ GetOptionChain
    \/ GetOptionSettlements
    \/ GetCurveAndExpiry
    \/ ImpliedVols
    \/ CalibrateSabr
    \/ GenerateRnd
    \/ Finish

SpecAnalysis == AnalysisInit /\ [][AnalysisNext]_vars

-----------------------------------------------------------------------------
(* Claims about interpolate_discount_rate, stated on the caller's rows *)

IsNumeric(c) == c.k \in {"num", "str"}

\* The rows of the caller's frame that carry a numeric, strictly positive day
\* and a numeric rate.
UsableRows(rows) ==
    {i \in DOMAIN rows :
        IsNumeric(rows[i].DTE) /\ IsNumeric(rows[i].RATE) /\ rows[i].DTE.v > 0}

UsableDays(rows) == {rows[i].DTE.v : i \in UsableRows(rows)}

RECURSIVE RateTotal(_, _)
RateTotal(rows, idx) ==
    IF idx = {} THEN 0
    ELSE LET i == CHOOSE k \in idx : TRUE
         IN  rows[i].RATE.v + RateTotal(rows, idx \ {i})

\* The mean rate of the usable rows of day d, as num/den compared by
\* cross-multiplication.
IsMeanOfDay(rate, rows, d) ==
    LET idx == {i \in UsableRows(rows) : rows[i].DTE.v = d}
    IN  rate.num * Cardinality(idx) = RateTotal(rows, idx) * rate.den

\* C8: clamping law.  A call that returns a rate with the target at or below
\* the smallest usable day returns the (mean) rate of that day, with the
\* target at or above the largest usable day the (mean) rate of that day, and
\* the spline is evaluated exactly for the targets strictly between the two.
C8_ClampingLaw ==
    cv_pc = "returned" =>
        LET lo == SetMin(UsableDays(curve_df.rows))
            hi == SetMax(UsableDays(curve_df.rows))
        IN  /\ target_dte <= lo =>
                /\ cv_out.via = "clamp_min"
                /\ IsMeanOfDay(cv_out.rate, curve_df.rows, lo)
            /\ target_dte >= hi =>
                /\ cv_out.via = "clamp_max"
                /\ IsMeanOfDay(cv_out.rate, curve_df.rows, hi)
            /\ (cv_out.via = "spline") <=> (lo < target_dte /\ target_dte < hi)

\* C8 witness: a clamp at the upper boundary whose day had two rows with
\* different rates, so the returned rate is their mean.
C8_Witness ==
    /\ cv_pc = "returned"
    /\ cv_out.via = "clamp_max"
    /\ \E i, j \in UsableRows(curve_df.rows) :
         /\ curve_df.rows[i].DTE.v = target_dte
         /\ curve_df.rows[j].DTE.v = target_dte
         /\ curve_df.rows[i].RATE.v # curve_df.rows[j].RATE.v
    /\ cv_out.rate = Rat(4, 1)

SameAsPreviousCall == cv_out = cv_prev.out /\ df = cv_prev.df

RepeatedRow == curve_df.rows[Len(curve_df.rows)]

\* The repeated row is dropped by the cleaning, or every usable row of its
\* day carries its rate.
RepeatsUniformDay ==
    \/ Len(curve_df.rows) \notin UsableRows(curve_df.rows)
    \/ \A i \in UsableRows(curve_df.rows) :
         curve_df.rows[i].DTE.v = RepeatedRow.DTE.v
             => curve_df.rows[i].RATE.v = RepeatedRow.RATE.v

StrictlyIncreasingDays(frame) ==
    \A i, j \in DOMAIN frame : i < j => frame[i].DTE < frame[j].DTE

\* C10: the clamp/spline step is reached only with at least 2 cleaned points
\* whose days are the usable days of the input, strictly positive and strictly
\* increasing, each with the mean rate of its day; with fewer than 2 usable
\* days the call raises and returns no rate.
C10_CleanedCurveInvariant ==
    /\ cv_pc \in {"bounds", "returned"} =>
        /\ Len(df) >= 2
        /\ StrictlyIncreasingDays(df)
        /\ \A i \in DOMAIN df : df[i].DTE > 0
        /\ {df[i].DTE : i \in DOMAIN df} = UsableDays(curve_df.rows)
        /\ \A i \in DOMAIN df : IsMeanOfDay(df[i].RATE, curve_df.rows, df[i].DTE)
    /\ (CallDone /\ Cardinality(UsableDays(curve_df.rows)) < 2) =>
        /\ cv_out.kind = "raise"
        /\ cv_pc = "raised"
    /\ cv_pc = "raised" =>
        (~curve_df.columns_ok \/ Cardinality(UsableDays(curve_df.rows)) < 2)

\* C10 witness: rows were dropped and duplicate days merged, and 2 points
\* remained for the clamp/spline step.
C10_Witness ==
    /\ cv_pc = "bounds"
    /\ Len(curve_df.rows) = 4
    /\ Len(df) = 2
    /\ Cardinality(UsableRows(curve_df.rows)) = 3

-----------------------------------------------------------------------------
(* Claims about the scenario probability engine *)

\* The number of grid points inside the closed range of the last call.
PointsInside(strikes, r) ==
    Cardinality({i \in DOMAIN strikes :
                    r.min_rate <= strikes[i] /\ strikes[i] <= r.max_rate})

\* C5: integrate_rnd_over_range returns exactly 0.0, without evaluating
\* Simpson's rule, whenever fewer than 2 grid points lie in
\* [min_rate, max_rate]; over the strictly increasing grids of this
\* specification that covers every degenerate range min_rate = max_rate; and
\* Simpson's rule is evaluated only with at least 2 points inside.
C5_DegenerateRangeIsZero ==
    se_pc = "integrated" =>
        /\ PointsInside(se_strikes, se_range) < 2 =>
              (se_prob.prob = FromInt(0) /\ ~se_prob.simpson)
        /\ se_range.min_rate = se_range.max_rate =>
              (se_prob.prob = FromInt(0) /\ ~se_prob.simpson)
        /\ se_prob.simpson <=> PointsInside(se_strikes, se_range) >= 2

\* C5 witness: a degenerate range that holds one grid point of non-zero
\* density returned 0.
C5_Witness ==
    /\ se_pc = "integrated"
    /\ se_range.min_rate = se_range.max_rate
    /\ \E i \in DOMAIN se_strikes :
         se_strikes[i] = se_range.min_rate /\ se_density[i] # FromInt(0)
    /\ se_prob.prob = FromInt(0)

\* C6: compute_scenario_probabilities returns one value per scenario name
\* given, the integral over that scenario's own range, which is also what it
\* returns for that scenario alone: no other scenario changes it.
C6_ScenariosIndependent ==
    se_pc = "computed" =>
        /\ DOMAIN se_probs = DOMAIN se_scenarios
        /\ \A n \in DOMAIN se_scenarios :
             /\ se_probs[n] =
                  integrate_rnd_over_range(se_strikes, se_density,
                      se_scenarios[n].min_rate, se_scenarios[n].max_rate).prob
             /\ se_probs[n] =
                  compute_scenario_probabilities(se_strikes, se_density,
                      [m \in {n} |-> se_scenarios[n]])[n]

\* C6 witness: two overlapping scenarios, both with a non-zero probability,
\* whose probabilities do not sum to 1.
C6_Witness ==
    /\ se_pc = "computed"
    /\ DOMAIN se_scenarios = ScenarioNames
    /\ se_scenarios["Cut"].max_rate > se_scenarios["Hold"].min_rate
    /\ se_scenarios["Cut"].min_rate < se_scenarios["Hold"].min_rate
    /\ se_probs["Cut"] # FromInt(0)
    /\ se_probs["Hold"] # FromInt(0)
    /\ RAdd(se_probs["Cut"], se_probs["Hold"]) # FromInt(1)

-----------------------------------------------------------------------------
(* Claims about analyze_stir_contract *)

PastSettlementFloor ==
    an_pc \in {"curve", "ivols", "calibrate", "rnd", "finish", "returned"}

PastIvolFloor == an_pc \in {"calibrate", "rnd", "finish", "returned"}

\* The quotes fetched whose settlement is at or above the floor.
QuotesAtFloor ==
    {i \in DOMAIN an_fetched : an_fetched[i].SETTLEMENT >= MinSettlementPrice}

\* Those of them that were given an implied vol above 0.
QuotesWithVol ==
    {i \in QuotesAtFloor :
        \E j \in DOMAIN an_ivol_df :
            an_ivol_df[j].CODE = an_fetched[i].CODE /\ an_ivol_df[j].IVOL > 0}

\* C1: two separate quote floors.  The call fails at line 66 exactly when
\* fewer than 5 fetched quotes have settlement >= min_settlement_price, and at
\* line 101 exactly when fewer than 5 of those have an implied vol > 0; every
\* result returned has num_options_used >= 5, equal to the number of quotes
\* that passed both filters.
C1_TwoQuoteFloors ==
    /\ an_error = "Insufficient options" =>
          (an_pc = "raised" /\ Cardinality(QuotesAtFloor) < 5)
    /\ PastSettlementFloor => Cardinality(QuotesAtFloor) >= 5
    /\ an_error = "Insufficient options after IV calculation" =>
          (an_pc = "raised" /\ Cardinality(QuotesAtFloor) >= 5
                            /\ Cardinality(QuotesWithVol) < 5)
    /\ PastIvolFloor => Cardinality(QuotesWithVol) >= 5
    /\ an_pc = "returned" =>
          /\ an_result.num_options_used >= 5
          /\ an_result.num_options_used = Cardinality(QuotesWithVol)

\* C1 witness: a result returned with 5 options used out of 6 fetched, one
\* of which passed the settlement floor and lost its quote at the implied
\* vol filter.
C1_Witness ==
    /\ an_pc = "returned"
    /\ Len(an_fetched) = 6
    /\ Cardinality(QuotesAtFloor) = 6
    /\ an_result.num_options_used = 5

\* C2: calculate_implied_vol returns 0.0 for every row on which the solver
\* raised and the call goes on (it fails, if at all, with its own floor
\* error); the (strike, vol) lists passed to calibrate_sabr are the rows with
\* an implied vol > 0, in order, so no 0.0 is among the vols.
C2_NoSentinelReachesCalibration ==
    /\ Len(an_ivol_df) = Len(an_solver)
    /\ \A i \in DOMAIN an_solver :
          /\ an_solver[i].raised => an_ivol_df[i].IVOL = 0
          /\ ~an_solver[i].raised => an_ivol_df[i].IVOL = an_solver[i].iv * 100
    /\ (\E i \in DOMAIN an_solver : an_solver[i].raised) =>
          an_error \in {"", "Insufficient options after IV calculation",
                        "calibration failed", "no scenario rates"}
    /\ an_calib # NoCalib =>
          LET good == SelectSeq(an_ivol_df, LAMBDA row : ~(row.IVOL <= 0))
          IN  /\ \A k \in DOMAIN an_calib.market_vols : an_calib.market_vols[k] > 0
              /\ an_calib.strikes = [k \in DOMAIN good |-> good[k].STRIKE]
              /\ an_calib.market_vols = [k \in DOMAIN good |-> good[k].IVOL]

\* C2 witness: calibrate_sabr was called with 5 vols after the solver had
\* raised on one of 6 rows.
C2_Witness ==
    /\ an_calib # NoCalib
    /\ Len(an_solver) = 6
    /\ \E i \in DOMAIN an_solver : an_solver[i].raised
    /\ Len(an_calib.market_vols) = 5

\* C3: in every result the first grid rate equals the smallest scenario
\* boundary and the last grid rate the largest, so every scenario's interval
\* [min_rate, max_rate] lies inside the span of rnd_data.strikes.
C3_GridCoversEveryScenario ==
    an_pc = "returned" =>
        LET strikes == an_result.rnd_data.strikes
            first == strikes[1]
            last == strikes[Len(strikes)]
        IN  /\ first = SetMin(all_rates_of(an_scenarios))
            /\ last = SetMax(all_rates_of(an_scenarios))
            /\ \A n \in DOMAIN an_scenarios :
                  /\ first <= an_scenarios[n].min_rate
                  /\ an_scenarios[n].max_rate <= last

StrictlyIncreasing(s) == \A i, j \in DOMAIN s : i < j => s[i] < s[j]

\* density[i] is the density generate_rnd computed for the grid price that
\* became strikes[i].
PairedWithGenerated(rnd_data) ==
    /\ Len(rnd_data.strikes) = Len(an_strikes_price)
    /\ Len(rnd_data.density) = Len(an_density)
    /\ \A i \in DOMAIN rnd_data.strikes :
          LET j == Len(an_strikes_price) + 1 - i
          IN  /\ rnd_data.strikes[i] = Hundred - an_strikes_price[j]
              /\ rnd_data.density[i] = an_density[j]

PriceBoundsResolved ==
    LET lo == SetMin(all_rates_of(an_scenarios))
        hi == SetMax(all_rates_of(an_scenarios))
    IN  RoundToQuantum(FromInt(Hundred - lo)) - RoundToQuantum(FromInt(Hundred - hi))
            >= (Len(an_strikes_price) - 1) * Quantum

C7_ProbabilitiesInUnitInterval ==
    an_pc = "returned" =>
        \A n \in DOMAIN an_result.scenario_probabilities :
            /\ RLe(FromInt(0), an_result.scenario_probabilities[n])
            /\ RLe(an_result.scenario_probabilities[n], FromInt(1))
            /\ RLe(FromInt(0), an_result.scenario_probabilities_pct[n])
            /\ RLe(an_result.scenario_probabilities_pct[n], FromInt(100))

-----------------------------------------------------------------------------
(* core/scenarios.py: calculate_probability_shifts *)

\* The difference with the operands exchanged: probs1 - probs2.
calculate_probability_shifts_reversed(probs1, probs2) ==
    [n \in DOMAIN probs1 \cap DOMAIN probs2 |-> RSub(probs1[n], probs2[n])]

\* The loop over the names of probs1 still to visit: a name that is also in
\* probs2 gets shifts[scenario] = probs2[scenario] - probs1[scenario].
RECURSIVE shift_loop(_, _, _, _)
shift_loop(probs1, probs2, todo, shifts) ==
    IF todo = {} THEN shifts
    ELSE LET scenario == CHOOSE n \in todo : TRUE
         IN  IF scenario \in DOMAIN probs2
             THEN shift_loop(probs1, probs2, todo \ {scenario},
                      [n \in DOMAIN shifts \cup {scenario} |->
                          IF n = scenario
                          THEN RSub(probs2[scenario], probs1[scenario])
                          ELSE shifts[n]])
             ELSE shift_loop(probs1, probs2, todo \ {scenario}, shifts)

calculate_probability_shifts(probs1, probs2) ==
    shift_loop(probs1, probs2, DOMAIN probs1, EmptyDict)

\* The probabilities a mapping may hold: what compute_scenario_probabilities
\* returns, a nan included.
ShiftNames == {"Cut", "Hold", "Hike"}
ProbabilityChoices == {FromInt(0), Rat(1, 4), FromInt(1), NotFinite}
ProbabilityDicts == UNION {[names -> ProbabilityChoices] : names \in SUBSET ShiftNames}

OutsideShifts ==
    UNCHANGED <<curveVars, scenarioVars, analysisVars, contractVars,
                calibrateVars, toolVars,
                chainVars, meetingVars, rollVars, tenorVars, sessionVars,
                connectionVars>>

ShiftInit ==
    /\ sh_pc = "args"
    /\ sh_probs1 \in ProbabilityDicts
    /\ sh_probs2 \in ProbabilityDicts
    /\ sh_shifts = EmptyDict
    /\ CurveIdle /\ ScenarioIdle /\ AnalysisIdle
    /\ ContractIdle /\ CalibrateIdle /\ ToolIdle
    /\ LaterIdle

\* A call calculate_probability_shifts(probs1, probs2).
CalculateShifts ==
    /\ sh_pc = "args"
    /\ sh_shifts' = calculate_probability_shifts(sh_probs1, sh_probs2)
    /\ sh_pc' = "done"
    /\ UNCHANGED <<sh_probs1, sh_probs2>>
    /\ OutsideShifts

ShiftNext == CalculateShifts

SpecShifts == ShiftInit /\ [][ShiftNext]_vars

\* Keys and values of the returned mapping: the names in both, b - a each.
ShiftsAreDifferences ==
    /\ DOMAIN sh_shifts = DOMAIN sh_probs1 \cap DOMAIN sh_probs2
    /\ \A n \in DOMAIN sh_shifts :
          IF IsFinite(sh_probs1[n]) /\ IsFinite(sh_probs2[n])
          THEN /\ IsFinite(sh_shifts[n])
               /\ sh_shifts[n].num * sh_probs1[n].den * sh_probs2[n].den =
                    sh_shifts[n].den * (sh_probs2[n].num * sh_probs1[n].den
                                        - sh_probs1[n].num * sh_probs2[n].den)
          ELSE ~IsFinite(sh_shifts[n])

-----------------------------------------------------------------------------
(* Claims about input errors of analyze_stir_contract *)

UnsupportedPrefix == infer_currency(normalize_ticker(an_contract)).raised

\* C12: a call with an unsupported ticker prefix or with a date that is not
\* a valid YYYYMMDD string has made no market-data call at any moment: not
\* the futures settlement, the option chain, the option settlements, the
\* discount curve or the option expiry.
C12_InputErrorsBeforeAnyCall ==
    (UnsupportedPrefix \/ strptime_raises(an_date)) => an_calls = <<>>

\* The call of a supported contract with a dashed date has fetched the
\* futures settlement, the chain and the option settlements, and opened the
\* curve's connection, when the date fails to parse.
C12_MalformedDateFailsLate ==
    /\ ~ UnsupportedPrefix
    /\ strptime_raises(an_date)
    /\ an_pc = "raised"
    /\ an_error = "time data does not match format"
    /\ an_calls = <<"futures", "chain", "settlements", "curve">>

\* An unsupported prefix does fail before any call.
C12_PrefixFailsFirst ==
    UnsupportedPrefix => an_calls = <<>> /\ an_pc \in {"start", "raised"}

-----------------------------------------------------------------------------
(* core/sabr_calibration.py: calibrate_sabr on the strikes it is given *)

\* scipy's CubicSpline(x, y) raises a ValueError unless x holds at least 2
\* points and is strictly increasing; 2 points are enough for it.
spline_raises(x) == Len(x) < 2 \/ ~ StrictlyIncreasing(x)

CalibrationRaised == [fit |-> "raise", spline |-> NoSpline]

\* Lines 50-72.  Line 53 builds the spline, line 54 evaluates it at the
\* forward, lines 60-61 fit the model: pysabr's fit minimises the squared
\* error over the strikes it is handed and returns where the search stops,
\* whatever their number.  No line counts the strikes.
calibrate_sabr(forward, strikes, market_vols, fit) ==
    IF spline_raises(strikes)
    THEN CalibrationRaised
    ELSE [fit |-> fit, spline |-> CubicSpline(strikes, market_vols, forward)]

MaxCalibStrikes == 3
CalibStrikeChoices == 1 .. MaxCalibStrikes
CalibVolChoices == {1, 2}

OutsideCalibrate ==
    UNCHANGED <<curveVars, scenarioVars, analysisVars, shiftVars, contractVars,
                toolVars,
                chainVars, meetingVars, rollVars, tenorVars, sessionVars,
                connectionVars>>

\* strikes and market_vols are lists of one length, in any order, with or
\* without repeated strikes.
CalibrateInit ==
    /\ cs_pc = "start"
    /\ cs_strikes \in SeqsUpTo(CalibStrikeChoices, MaxCalibStrikes)
    /\ cs_market_vols \in [DOMAIN cs_strikes -> CalibVolChoices]
    /\ cs_out = NoFit
    /\ CurveIdle /\ ScenarioIdle /\ AnalysisIdle /\ ShiftIdle /\ ContractIdle
    /\ ToolIdle
    /\ LaterIdle

Calibrate ==
    /\ cs_pc = "start"
    /\ \E forward \in CalibStrikeChoices, fit \in FitChoices :
         LET out == calibrate_sabr(forward, cs_strikes, cs_market_vols, fit)
         IN  /\ cs_out' = out
             /\ cs_pc' = IF out.fit = "raise" THEN "raised" ELSE "returned"
    /\ UNCHANGED <<cs_strikes, cs_market_vols>>
    /\ OutsideCalibrate

CalibrateNext == Calibrate

SpecCalibrate == CalibrateInit /\ [][CalibrateNext]_vars

\* C13: whenever the strikes handed to calibrate_sabr hold fewer than 3
\* distinct values, the call fails and returns no parameters.
C13_FewerThanThreeStrikesFail ==
    (cs_pc # "start" /\ Cardinality(Range(cs_strikes)) < 3) =>
        cs_pc = "raised" /\ cs_out = CalibrationRaised

\* What the code does guarantee: fewer than 2 strikes, or strikes that are
\* not strictly increasing, fail.
C13_SplineNeedsTwoIncreasing ==
    (cs_pc # "start" /\ (Len(cs_strikes) < 2 \/ ~ StrictlyIncreasing(cs_strikes))) =>
        cs_pc = "raised" /\ cs_out = CalibrationRaised

\* Two distinct increasing strikes come back with fitted parameters.
C13_TwoStrikesReturn ==
    /\ cs_pc = "returned"
    /\ cs_strikes = <<1, 2>>
    /\ cs_out.fit \in FitChoices

-----------------------------------------------------------------------------
(* Claims about the time to expiry in analyze_stir_contract *)

\* The implied vols have been computed (lines 85-95) for the rows at hand.
ImpliedVolsComputed == an_solver # <<>>

\* C14: the implied-vol computation, the calibration and the RND generation
\* are reached only with tau > 0, and every parameter bundle built has
\* tau > 0.
C14_TauPositive ==
    /\ ImpliedVolsComputed => an_dte > 0
    /\ an_sabr_params # NoParams => RLt(FromInt(0), an_sabr_params.tau)

\* An expiry on the analysis date: the implied vols are computed with
\* tau = 0.
C14_ExpiryOnAnalysisDate ==
    /\ ImpliedVolsComputed
    /\ an_dte = 0

-----------------------------------------------------------------------------
(* core/contracts.py: the three functions on the tickers they may be given *)

Leads == { <<>>, <<" ">> }

Families ==
    { <<"S", "F", "R">>, <<"E", "R">>, <<"S", "F", "I">> }

Prefixes ==
    Families \cup
    { <<"X", "Y", "Z">>, <<"s", "f", "r">>, <<"e", "r">>, <<"S", "F">>, <<>> }

MonthLetters == DOMAIN month_map \cup {"A", "h"}

YearDigits == {"5", "6"}

Suffixes ==
    { <<>>,
      <<" ">> \o Comdty,
      <<" ">> \o COMDTY,
      <<" ">> \o COMB \o <<" ">> \o Comdty,
      COMDTY,
      <<" ">> }

\* A prefix, a month letter, a year digit (or none) and what follows.
TickerChoices ==
    { lead \o prefix \o <<m>> \o digit \o suffix :
        lead \in Leads, prefix \in Prefixes, m \in MonthLetters,
        digit \in {<<d>> : d \in YearDigits} \cup {<<>>}, suffix \in Suffixes }

OutsideContracts ==
    UNCHANGED <<curveVars, scenarioVars, analysisVars, shiftVars, calibrateVars,
                toolVars,
                chainVars, meetingVars, rollVars, tenorVars, sessionVars,
                connectionVars>>

ContractInit ==
    /\ ct_pc = "run"
    /\ ct_ticker \in TickerChoices
    /\ ct_normalized = <<>>
    /\ ct_renormalized = <<>>
    /\ ct_currency = NoCurrency
    /\ ct_parsed = NoParse
    /\ CurveIdle /\ ScenarioIdle /\ AnalysisIdle /\ ShiftIdle /\ CalibrateIdle
    /\ ToolIdle
    /\ LaterIdle

\* normalize_ticker(ticker)
Normalize ==
    /\ ct_pc = "run"
    /\ ct_normalized = <<>>
    /\ ct_normalized' = normalize_ticker(ct_ticker)
    /\ UNCHANGED <<ct_pc, ct_ticker, ct_renormalized, ct_currency, ct_parsed>>
    /\ OutsideContracts

\* normalize_ticker on what normalize_ticker returned.
Renormalize ==
    /\ ct_pc = "run"
    /\ ct_normalized # <<>>
    /\ ct_renormalized = <<>>
    /\ ct_renormalized' = normalize_ticker(ct_normalized)
    /\ UNCHANGED <<ct_pc, ct_ticker, ct_normalized, ct_currency, ct_parsed>>
    /\ OutsideContracts

\* infer_currency(ticker)
InferCurrency ==
    /\ ct_pc = "run"
    /\ ct_currency = NoCurrency
    /\ ct_currency' = infer_currency(ct_ticker)
    /\ UNCHANGED <<ct_pc, ct_ticker, ct_normalized, ct_renormalized, ct_parsed>>
    /\ OutsideContracts

\* parse_contract_code(ticker)
ParseContractCode ==
    /\ ct_pc = "run"
    /\ ct_parsed = NoParse
    /\ ct_parsed' = parse_contract_code(ct_ticker)
    /\ UNCHANGED <<ct_pc, ct_ticker, ct_normalized, ct_renormalized, ct_currency>>
    /\ OutsideContracts

ContractNext ==
    \/ Normalize
    \/ Renormalize
    \/ InferCurrency
    \/ ParseContractCode

SpecContracts == ContractInit /\ [][ContractNext]_vars

-----------------------------------------------------------------------------
(* Claims about core/contracts.py *)

Trimmed(ticker) == str_strip(str_upper(ticker))

\* C15: after trimming and uppercasing, infer_currency returns USD for a
\* ticker starting with SFR, EUR for one starting with ER, GBP for one
\* starting with SFI, and fails for every other ticker; it returns no other
\* currency.
C15_CurrencyOfFamily ==
    ct_currency # NoCurrency =>
        LET t == Trimmed(ct_ticker)
        IN  /\ startswith(t, <<"S", "F", "R">>) => ct_currency = CurrencyOf("USD")
            /\ startswith(t, <<"E", "R">>) => ct_currency = CurrencyOf("EUR")
            /\ startswith(t, <<"S", "F", "I">>) => ct_currency = CurrencyOf("GBP")
            /\ (\A family \in Families : ~ startswith(t, family)) =>
                  ct_currency = CannotInfer
            /\ ~ ct_currency.raised => ct_currency.currency \in {"USD", "EUR", "GBP"}

\* infer_currency("ERH5") = "EUR".
C15_Witness ==
    /\ ct_ticker = <<"E", "R", "H", "5">>
    /\ ct_currency = CurrencyOf("EUR")

\* What parse_contract_code returns for the characters t.
ParsedFrom(t) ==
    IF Len(t) >= 5
    THEN [month |-> IF t[4] \in DOMAIN month_map THEN month_map[t[4]] ELSE "Unknown",
          year  |-> <<"2", "0", "2", t[5]>>]
    ELSE [month |-> "Unknown", year |-> UnknownYear]

\* C16 as claimed, with the length and the positions 4 and 5 taken on the
\* ticker as given (its letters uppercased): month of the letter at
\* position 4, "202" and the character at position 5; ("Unknown",
\* "Unknown") under 5 characters.
C16_ParseByPosition ==
    ct_parsed # NoParse => ct_parsed = ParsedFrom(str_upper(ct_ticker))

\* C16, amended: parse_contract_code never fails, and the length and the
\* positions 4 and 5 are those of the ticker after trimming and uppercasing.
C16_Amended ==
    ct_parsed # NoParse => ct_parsed = ParsedFrom(Trimmed(ct_ticker))

\* parse_contract_code("SFRZ6") = (December, "2026").
C16_Witness ==
    /\ ct_ticker = <<"S", "F", "R", "Z", "6">>
    /\ ct_parsed = [month |-> "December", year |-> <<"2", "0", "2", "6">>]

\* A ticker of a supported family, a month-code letter and a year digit,
\* with or without the suffix normalize_ticker adds.
FamilyTickers ==
    { [chars |-> family \o <<m, d>> \o suffix, m |-> m, d |-> d] :
        family \in Families, m \in DOMAIN month_map, d \in YearDigits,
        suffix \in {<<>>, <<" ">> \o Comdty} }

\* C17: for every such ticker parse_contract_code returns the month of the
\* month-code letter and the year "202" followed by the digit.
C17_MonthAndYearOfFamilyTicker ==
    ct_parsed # NoParse =>
        \A ft \in FamilyTickers :
            ct_ticker = ft.chars =>
                ct_parsed = [month |-> month_map[ft.m],
                             year  |-> <<"2", "0", "2", ft.d>>]

\* For the three-letter families the claim's result comes out.
C17_ThreeLetterFamilies ==
    ct_parsed # NoParse =>
        \A ft \in FamilyTickers :
            (ct_ticker = ft.chars /\ ~ startswith(ft.chars, <<"E", "R">>)) =>
                ct_parsed = [month |-> month_map[ft.m],
                             year  |-> <<"2", "0", "2", ft.d>>]

\* parse_contract_code("ERH5") = ("Unknown", "Unknown").
C17_EuriborUnknown ==
    /\ ct_ticker = <<"E", "R", "H", "5">>
    /\ ct_parsed = [month |-> "Unknown", year |-> UnknownYear]

RECURSIVE CountOf(_, _)
CountOf(sub, s) ==
    IF Len(s) < Len(sub) \/ sub = <<>> THEN 0
    ELSE (IF SubSeq(s, 1, Len(sub)) = sub THEN 1 ELSE 0) + CountOf(sub, Tail(s))

\* C18: normalize_ticker applied to its own result returns that result, and
\* the suffix is appended at most once.
C18_NormalizeIdempotent ==
    ct_renormalized # <<>> =>
        /\ ct_renormalized = ct_normalized
        /\ CountOf(COMDTY, str_upper(ct_renormalized))
              <= 1 + CountOf(COMDTY, str_upper(ct_ticker))

\* The suffix is appended at most once, and the second application changes
\* nothing but the case of letters.
C18_UpToCase ==
    ct_renormalized # <<>> =>
        /\ ct_renormalized = str_upper(ct_normalized)
        /\ CountOf(COMDTY, str_upper(ct_renormalized))
              <= 1 + CountOf(COMDTY, str_upper(ct_ticker))

\* normalize_ticker("SFRZ6") = "SFRZ6 Comdty", and normalize_ticker of that
\* is "SFRZ6 COMDTY".
C18_SuffixCaseChanges ==
    /\ ct_ticker = <<"S", "F", "R", "Z", "6">>
    /\ ct_normalized = <<"S", "F", "R", "Z", "6", " ">> \o Comdty
    /\ ct_renormalized = <<"S", "F", "R", "Z", "6", " ">> \o COMDTY

-----------------------------------------------------------------------------
(* tools/stir_scenario_tool.py: analyze_stir_scenarios *)

\* A Python list and a Python tuple of the same items are different values.
PyList(items) == [kind |-> "list", items |-> items]
PyTuple(items) == [kind |-> "tuple", items |-> items]

RECURSIVE ReverseSeq(_)
ReverseSeq(s) ==
    IF s = <<>> THEN <<>> ELSE Append(ReverseSeq(Tail(s)), Head(s))

\* tuple(range_list) with the items taken from the far end.
tuple_of_reversed(range_list) == PyTuple(ReverseSeq(range_list.items))

\* tuple(range_list): the items of the list, in its order.
tuple_of(range_list) ==
    PyTuple([i \in 1 .. Len(range_list.items) |-> range_list.items[i]])

\* list(t): the items of the tuple, in its order.
list_of(t) == PyList([i \in 1 .. Len(t.items) |-> t.items[i]])

\* A dict is the sequence of its (name, value) pairs in insertion order.
\* Lines 52-55: the comprehension over scenarios.items().
scenarios_to_tuples(scenarios) ==
    [i \in DOMAIN scenarios |->
        [name |-> scenarios[i].name, range |-> tuple_of(scenarios[i].range)]]

MaxRangeLen == 2
ToolRates == {1, 2}
ToolNames == {"Cut", "Hold"}

RangeLists == {PyList(items) : items \in SeqsUpTo(ToolRates, MaxRangeLen)}

\* The dicts of at most two scenarios, each name once.
ToolScenarioDicts ==
    {<<>>}
    \cup {<<[name |-> n, range |-> r]>> : n \in ToolNames, r \in RangeLists}
    \cup { d \in { <<[name |-> n1, range |-> r1], [name |-> n2, range |-> r2]>> :
                     n1 \in ToolNames, n2 \in ToolNames,
                     r1 \in RangeLists, r2 \in RangeLists } :
             d[1].name # d[2].name }

ToolContracts == { <<"S", "F", "R", "Z", "6">>, <<"E", "R", "H", "5">> }
ToolDate == <<"2", "0", "2", "4", "1", "0", "1", "8">>

\* Line 60: f"stir_analysis_{contract}_{date}"
state_key_of(contract, date) ==
    <<"s", "t", "i", "r", "_", "a", "n", "a", "l", "y", "s", "i", "s", "_">>
        \o contract \o <<"_">> \o date

\* stir_analysis.py lines 131-155: the dict analyze_stir_contract returns,
\* with the fields that echo the request and one that holds what was
\* computed.
core_result(contract, date, scenarios_tuples) ==
    [success |-> TRUE,
     contract |-> normalize_ticker(contract),
     date |-> date,
     scenarios |-> scenarios_tuples,
     scenario_probabilities |->
         [i \in DOMAIN scenarios_tuples |-> scenarios_tuples[i].name]]

\* Lines 75-80 with the contract as the core names it.
error_result_normalized(contract, date) ==
    [success |-> FALSE, error |-> "error",
     contract |-> normalize_ticker(contract), date |-> date]

\* Lines 75-80.
error_result(contract, date) ==
    [success |-> FALSE, error |-> "error", contract |-> contract, date |-> date]

\* result["state_key"] = state_key on a dict without that key.
with_state_key(result, state_key) ==
    [f \in DOMAIN result \cup {"state_key"} |->
        IF f = "state_key" THEN state_key ELSE result[f]]

OutsideTool ==
    UNCHANGED <<curveVars, scenarioVars, analysisVars, shiftVars, contractVars,
                calibrateVars,
                chainVars, meetingVars, rollVars, tenorVars, sessionVars,
                connectionVars>>

ToolInit ==
    /\ tl_pc = "start"
    /\ tl_contract \in ToolContracts
    /\ tl_scenarios \in ToolScenarioDicts
    /\ tl_scenarios_tuples = <<>>
    /\ tl_core = NoDict
    /\ tl_result = NoDict
    /\ tl_state = NoDict
    /\ tl_return = NoDict
    /\ CurveIdle /\ ScenarioIdle /\ AnalysisIdle /\ ShiftIdle /\ ContractIdle
    /\ CalibrateIdle
    /\ LaterIdle

\* Lines 52-55.
ConvertScenarios ==
    /\ tl_pc = "start"
    /\ tl_scenarios_tuples' = scenarios_to_tuples(tl_scenarios)
    /\ tl_pc' = "call"
    /\ UNCHANGED <<tl_contract, tl_scenarios, tl_core, tl_result, tl_state, tl_return>>
    /\ OutsideTool

\* Line 57, and lines 73-80 when the core raises.  tl_core keeps the result
\* as the core returned it, tl_result is the dict object itself.
CallCore ==
    /\ tl_pc = "call"
    /\ \/ /\ tl_core' = core_result(tl_contract, ToolDate, tl_scenarios_tuples)
          /\ tl_result' = tl_core'
          /\ tl_pc' = "save"
          /\ UNCHANGED tl_return
       \/ /\ tl_return' = error_result(tl_contract, ToolDate)
          /\ tl_pc' = "returned"
          /\ UNCHANGED <<tl_core, tl_result>>
    /\ UNCHANGED <<tl_contract, tl_scenarios, tl_scenarios_tuples, tl_state>>
    /\ OutsideTool

\* Lines 60-61: the session state holds the dict object, not a copy.
SaveToState ==
    /\ tl_pc = "save"
    /\ tl_state' = [k \in {state_key_of(tl_contract, ToolDate)} |-> tl_result]
    /\ tl_pc' = "key"
    /\ UNCHANGED <<tl_contract, tl_scenarios, tl_scenarios_tuples, tl_core, tl_result, tl_return>>
    /\ OutsideTool

\* Line 64: the assignment is made on the object the state holds too.
AddStateKey ==
    /\ tl_pc = "key"
    /\ LET state_key == state_key_of(tl_contract, ToolDate)
       IN  /\ tl_result' = with_state_key(tl_result, state_key)
           /\ tl_state' = [tl_state EXCEPT ![state_key] = tl_result']
    /\ tl_pc' = "return"
    /\ UNCHANGED <<tl_contract, tl_scenarios, tl_scenarios_tuples, tl_core, tl_return>>
    /\ OutsideTool

\* Line 71.
ReturnResult ==
    /\ tl_pc = "return"
    /\ tl_return' = tl_result
    /\ tl_pc' = "returned"
    /\ UNCHANGED <<tl_contract, tl_scenarios, tl_scenarios_tuples, tl_core, tl_result, tl_state>>
    /\ OutsideTool

ToolNext ==
    \/ ConvertScenarios
    \/ CallCore
    \/ SaveToState
    \/ AddStateKey
    \/ ReturnResult

SpecTool == ToolInit /\ [][ToolNext]_vars

-----------------------------------------------------------------------------
(* Claims about analyze_stir_scenarios *)

\* C19: once analyze_stir_contract has returned its result, the result has
\* the fields and the values it was returned with: the tool adds, removes
\* and changes none.
C19_ResultImmutableAfterReturn ==
    tl_core # NoDict => tl_result = tl_core

\* The result the tool returns, and the one in the session state, has a
\* field state_key that the core's result did not have.
C19_StateKeyAdded ==
    /\ tl_pc = "returned"
    /\ tl_core # NoDict
    /\ "state_key" \notin DOMAIN tl_core
    /\ "state_key" \in DOMAIN tl_return
    /\ \A k \in DOMAIN tl_state : "state_key" \in DOMAIN tl_state[k]

\* Tuples back to lists, name by name.
scenarios_to_lists(scenarios_tuples) ==
    [i \in DOMAIN scenarios_tuples |->
        [name |-> scenarios_tuples[i].name,
         range |-> list_of(scenarios_tuples[i].range)]]

-----------------------------------------------------------------------------
(* core/market_data.py: get_option_chain_filtered on the chain it is sent *)

\* An option ticker of the chain, split at whitespace: how many parts it
\* has and, if it has a second part, whether that part reads as a number,
\* which number, and whether it is written with a trailing zero ("96.50").
ChainTicker(side, nparts, numeric, value, zeros) ==
    [side |-> side, nparts |-> nparts, numeric |-> numeric, value |-> value,
     zeros |-> zeros]

\* Lines 50-58: float(parts[1]) of the tickers with at least 2 parts, the
\* ones float() rejects skipped.  "96.5" and "96.50" are one float.
strike_list_of(option_tickers) ==
    { option_tickers[i].value :
        i \in { k \in DOMAIN option_tickers :
                  option_tickers[k].nparts >= 2 /\ option_tickers[k].numeric } }

MaxChain == 3

\* Strikes one float below the future, at it and above it.
ChainStrikeChoices(fut) == {fut - Quantum, fut, fut + Quantum}

ChainTickerChoices(fut) ==
    {ChainTicker(side, 3, TRUE, v, FALSE) :
        side \in {"C", "P"}, v \in ChainStrikeChoices(fut)}
    \cup {ChainTicker("P", 3, TRUE, v, TRUE) : v \in ChainStrikeChoices(fut)}
    \cup {ChainTicker("C", 1, FALSE, 0, FALSE), ChainTicker("C", 3, FALSE, 0, FALSE)}

OutsideChain ==
    UNCHANGED <<earlierVars, meetingVars, rollVars, tenorVars, sessionVars,
                connectionVars>>

ChainInit ==
    /\ ch_pc = "start"
    /\ ch_fut \in FutChoices
    /\ ch_chain \in SeqsUpTo(ChainTickerChoices(ch_fut), MaxChain)
    /\ ch_out = <<>>
    /\ EarlierIdle
    /\ MeetingIdle /\ RollIdle /\ TenorIdle /\ SessionIdle /\ ConnectionIdle

\* Lines 44-69.
FilterChain ==
    /\ ch_pc = "start"
    /\ ch_out' = get_option_chain_filtered(ch_fut, strike_list_of(ch_chain))
    /\ ch_pc' = "returned"
    /\ UNCHANGED <<ch_chain, ch_fut>>
    /\ OutsideChain

ChainNext == FilterChain

SpecChain == ChainInit /\ [][ChainNext]_vars

\* C21: the identifiers returned are one per distinct strike read from the
\* chain, in ascending strike order, a put for a strike below the future's
\* settlement and a call for a strike above it; no strike has both, and no
\* identifier is in the money (a put struck above the settlement, a call
\* struck below it).
C21_OneOtmOptionPerStrike ==
    ch_pc = "returned" =>
        /\ \A i, j \in DOMAIN ch_out : i < j => ch_out[i].strike < ch_out[j].strike
        /\ {ch_out[i].strike : i \in DOMAIN ch_out}
              = { ch_chain[k].value :
                    k \in { n \in DOMAIN ch_chain :
                              ch_chain[n].nparts >= 2 /\ ch_chain[n].numeric } }
        /\ \A i \in DOMAIN ch_out :
              /\ ch_out[i].strike < ch_fut => ch_out[i].type = "put"
              /\ ch_out[i].strike > ch_fut => ch_out[i].type = "call"
              /\ ~ (ch_out[i].type = "put" /\ ch_out[i].strike > ch_fut)
              /\ ~ (ch_out[i].type = "call" /\ ch_out[i].strike < ch_fut)

\* A chain that lists the call and the put of the strike above the future,
\* then the put of the strike below it written with a trailing zero: two
\* identifiers come back, the put below and the call above.
C21_Witness ==
    /\ ch_pc = "returned"
    /\ ch_chain = << ChainTicker("C", 3, TRUE, ch_fut + Quantum, FALSE),
                     ChainTicker("P", 3, TRUE, ch_fut + Quantum, FALSE),
                     ChainTicker("P", 3, TRUE, ch_fut - Quantum, TRUE) >>
    /\ ch_out = << [type |-> "put", strike |-> ch_fut - Quantum],
                   [type |-> "call", strike |-> ch_fut + Quantum] >>

-----------------------------------------------------------------------------
(* core/meeting_dates.py: count_meetings_in_range *)

\* A day as the number yyyymmdd: the order of these numbers is the order of
\* the dates.
DayNumber(y, m, d) == (y * 100 + m) * 100 + d

RECURSIVE DigitsValue(_)
DigitsValue(s) ==
    IF s = <<>> THEN 0
    ELSE DigitsValue(SubSeq(s, 1, Len(s) - 1)) * 10 + DigitValue(s[Len(s)])

\* datetime.strptime(date, "%Y%m%d") of a string that parses.
strptime(date) ==
    DayNumber(DigitsValue(SubSeq(date, 1, 4)), DigitsValue(SubSeq(date, 5, 6)),
              DigitsValue(SubSeq(date, 7, 8)))

\* pd.to_datetime rejects a cell that is not "YYYY-MM-DD" with a real month
\* and day.
to_datetime_raises(cell) ==
    ~ ( /\ Len(cell) = 10
        /\ cell[5] = "-" /\ cell[8] = "-"
        /\ \A i \in {1, 2, 3, 4, 6, 7, 9, 10} : IsDigit(cell[i])
        /\ DigitsValue(SubSeq(cell, 6, 7)) \in 1 .. 12
        /\ DigitsValue(SubSeq(cell, 9, 10)) \in 1 .. 31 )

\* pd.to_datetime of a cell that parses.
to_datetime(cell) ==
    DayNumber(DigitsValue(SubSeq(cell, 1, 4)), DigitsValue(SubSeq(cell, 6, 7)),
              DigitsValue(SubSeq(cell, 9, 10)))

\* The n decimal digits of v, zero-padded.
RECURSIVE ZeroPadded(_, _)
ZeroPadded(v, n) ==
    IF n = 0 THEN <<>>
    ELSE Append(ZeroPadded(v \div 10, n - 1), Digits[(v % 10) + 1])

\* dt.strftime("%Y-%m-%d")
strftime(dt) ==
    ZeroPadded(dt \div 10000, 4) \o <<"-">> \o ZeroPadded((dt \div 100) % 100, 2)
        \o <<"-">> \o ZeroPadded(dt % 100, 2)

\* sort_values('date'): ascending, equal dates kept.
RECURSIVE sort_values(_)
sort_values(dates) ==
    IF dates = <<>> THEN <<>>
    ELSE LET least == SetMin(Range(dates))
             at == CHOOSE i \in DOMAIN dates :
                      dates[i] = least /\ \A k \in 1 .. (i - 1) : dates[k] # least
         IN  <<least>> \o sort_values(SubSeq(dates, 1, at - 1)
                                        \o SubSeq(dates, at + 1, Len(dates)))

\* The mask with the end date left out.
in_range_end_excluded(date, start_dt, end_dt) == date >= start_dt /\ date < end_dt

\* Line 111: (df['date'] >= start_dt) & (df['date'] <= end_dt)
in_range(date, start_dt, end_dt) == date >= start_dt /\ date <= end_dt

\* The range test that lets every range through.
start_after_end_unchecked(start_dt, end_dt) == FALSE

\* Line 80: start_dt > end_dt
start_after_end(start_dt, end_dt) == start_dt > end_dt

MeetingsRaised(exception) ==
    [raised |-> exception, meetings |-> <<>>, num_meetings |-> 0]

\* Lines 14-30.
MEETING_FILES == {"USD", "EUR", "GBP"}

\* Lines 52-134, in the order of the code's checks.
count_meetings_in_range(currency, file, start_date, end_date) ==
    IF currency \notin MEETING_FILES THEN MeetingsRaised("ValueError")
    ELSE IF ~ file.exists THEN MeetingsRaised("FileNotFoundError")
    ELSE IF strptime_raises(start_date) \/ strptime_raises(end_date)
         THEN MeetingsRaised("ValueError")
    ELSE IF start_after_end(strptime(start_date), strptime(end_date))
         THEN MeetingsRaised("ValueError")
    ELSE IF ~ file.date_column THEN MeetingsRaised("ValueError")
    ELSE IF \E i \in DOMAIN file.dates : to_datetime_raises(file.dates[i])
         THEN MeetingsRaised("ValueError")
    ELSE LET dates == [i \in DOMAIN file.dates |-> to_datetime(file.dates[i])]
             meetings_in_range ==
                 sort_values(SelectSeq(dates,
                     LAMBDA dt : in_range(dt, strptime(start_date),
                                          strptime(end_date))))
         IN  [raised |-> "",
              meetings |-> [i \in DOMAIN meetings_in_range |->
                               strftime(meetings_in_range[i])],
              num_meetings |-> Len(meetings_in_range)]

MaxMeetings == 3

MeetingCurrencies == {"USD", "JPY"}

\* start_date and end_date: three days in YYYYMMDD form, one with dashes.
MeetingDateArgs ==
    { <<"2", "0", "2", "5", "0", "1", "1", "5">>,
      <<"2", "0", "2", "5", "0", "1", "3", "1">>,
      <<"2", "0", "2", "5", "0", "3", "0", "1">>,
      <<"2", "0", "2", "5", "-", "0", "1", "-", "1", "5">> }

\* The date cells of a file: the days above, days before, between and
\* after them, and a cell that is no date.
MeetingCells ==
    { <<"2", "0", "2", "5", "-", "0", "1", "-", "1", "4">>,
      <<"2", "0", "2", "5", "-", "0", "1", "-", "1", "5">>,
      <<"2", "0", "2", "5", "-", "0", "1", "-", "3", "1">>,
      <<"2", "0", "2", "5", "-", "0", "2", "-", "0", "1">>,
      <<"s", "o", "o", "n">> }

MeetingFilesOnDisk ==
    { [exists |-> FALSE, date_column |-> FALSE, dates |-> <<>>],
      [exists |-> TRUE, date_column |-> FALSE, dates |-> <<>>] }
    \cup { [exists |-> TRUE, date_column |-> TRUE, dates |-> cells] :
             cells \in SeqsUpTo(MeetingCells, MaxMeetings) }

OutsideMeetings ==
    UNCHANGED <<earlierVars, chainVars, rollVars, tenorVars, sessionVars,
                connectionVars>>

MeetingInit ==
    /\ mt_pc = "start"
    /\ mt_currency \in MeetingCurrencies
    /\ mt_file \in MeetingFilesOnDisk
    /\ mt_start \in MeetingDateArgs
    /\ mt_end \in MeetingDateArgs
    /\ mt_out = NoMeetings
    /\ EarlierIdle
    /\ ChainIdle /\ RollIdle /\ TenorIdle /\ SessionIdle /\ ConnectionIdle

CountMeetings ==
    /\ mt_pc = "start"
    /\ mt_out' = count_meetings_in_range(mt_currency, mt_file, mt_start, mt_end)
    /\ mt_pc' = IF mt_out'.raised = "" THEN "returned" ELSE "raised"
    /\ UNCHANGED <<mt_currency, mt_file, mt_start, mt_end>>
    /\ OutsideMeetings

MeetingNext == CountMeetings

SpecMeetings == MeetingInit /\ [][MeetingNext]_vars

CountIn(x, s) == Cardinality({i \in DOMAIN s : s[i] = x})

\* C22: a call that returns (supported currency, file there, valid dates,
\* start <= end) returns as meetings the dates of the file from start_date
\* to end_date, both ends included, each as often as the file has it, in
\* ascending order, and num_meetings is their number.
C22_MeetingsInRange ==
    mt_pc = "returned" =>
        LET start_dt == strptime(mt_start)
            end_dt == strptime(mt_end)
            meetings == mt_out.meetings
        IN  /\ mt_out.num_meetings = Len(meetings)
            /\ \A i, j \in DOMAIN meetings :
                  i < j => to_datetime(meetings[i]) <= to_datetime(meetings[j])
            /\ \A cell \in Range(mt_file.dates) \cup Range(meetings) :
                  CountIn(cell, meetings) =
                      IF start_dt <= to_datetime(cell) /\ to_datetime(cell) <= end_dt
                      THEN CountIn(cell, mt_file.dates)
                      ELSE 0

\* From 15 January to 31 January, a file with 1 February, 31 January and
\* 15 January gives the 15th and the 31st.
C22_Witness ==
    /\ mt_pc = "returned"
    /\ mt_start = <<"2", "0", "2", "5", "0", "1", "1", "5">>
    /\ mt_end = <<"2", "0", "2", "5", "0", "1", "3", "1">>
    /\ Len(mt_file.dates) = 3
    /\ mt_file.dates[1] = <<"2", "0", "2", "5", "-", "0", "2", "-", "0", "1">>
    /\ mt_file.dates[2] = <<"2", "0", "2", "5", "-", "0", "1", "-", "3", "1">>
    /\ mt_file.dates[3] = <<"2", "0", "2", "5", "-", "0", "1", "-", "1", "5">>
    /\ mt_out.meetings = << <<"2", "0", "2", "5", "-", "0", "1", "-", "1", "5">>,
                            <<"2", "0", "2", "5", "-", "0", "1", "-", "3", "1">> >>
    /\ mt_out.num_meetings = 2

\* The four cases of the docstring's "Raises: ValueError".
UnsupportedCurrency == mt_currency \notin MEETING_FILES
FileMissing == ~ mt_file.exists
InvalidDates == strptime_raises(mt_start) \/ strptime_raises(mt_end)
StartAfterEnd == ~ InvalidDates /\ strptime(mt_start) > strptime(mt_end)

C23_MissingFile ==
    /\ mt_pc = "raised"
    /\ ~ UnsupportedCurrency
    /\ FileMissing
    /\ mt_out.raised = "FileNotFoundError"

-----------------------------------------------------------------------------
(* core/rates_engine.py: add_weeks/add_months_and_ensure_business_day *)

\* Days are counted from a Monday: date.weekday() is 0 on Monday, 5 on
\* Saturday and 6 on Sunday.
weekday(day) == day % 7

\* Lines 87 and 106: the loop's test.
not_business_day(new_date, country_holidays) ==
    weekday(new_date) >= 5 \/ new_date \in country_holidays

\* The loop's body with a Saturday moved on by 3 days.
advance_past_monday(new_date) ==
    IF weekday(new_date) = 5 THEN new_date + 3
    ELSE IF weekday(new_date) = 6 THEN new_date + 1
    ELSE new_date + 1

\* Lines 88-93 and 107-112: the loop's body.
advance(new_date) ==
    IF weekday(new_date) = 5 THEN new_date + 2
    ELSE IF weekday(new_date) = 6 THEN new_date + 1
    ELSE new_date + 1

MaxHolidayRun == 5

\* start_date: every day of a week.
StartDays == 0 .. 6

\* relativedelta(weeks=weeks) for the 1, 2 and 3 weeks of the tenor table.
WeekChoices == 1 .. 3

\* relativedelta(months=1): the days a calendar month counts.
MonthLengths == 28 .. 31

\* A holiday calendar: any days of a run of MaxHolidayRun days that starts
\* on a Thursday, among the dates the week offsets reach or among the dates
\* the month offsets reach.  Past the run no day is a holiday.
HolidayCalendars ==
    { {first + k : k \in run} :
        first \in {10, 31}, run \in SUBSET (0 .. (MaxHolidayRun - 1)) }

OutsideRoll ==
    UNCHANGED <<earlierVars, chainVars, meetingVars, tenorVars, sessionVars,
                connectionVars>>

RollInit ==
    /\ bd_pc = "start"
    /\ bd_date \in StartDays
    /\ bd_holidays \in HolidayCalendars
    /\ bd_base = 0
    /\ EarlierIdle
    /\ ChainIdle /\ MeetingIdle /\ TenorIdle /\ SessionIdle /\ ConnectionIdle

\* Lines 103-104: add_weeks_and_ensure_business_day up to its loop.
AddWeeks ==
    /\ bd_pc = "start"
    /\ \E weeks \in WeekChoices :
         /\ bd_date' = bd_date + 7 * weeks
         /\ bd_base' = bd_date'
    /\ bd_pc' = "loop"
    /\ UNCHANGED bd_holidays
    /\ OutsideRoll

\* Lines 84-85: add_months_and_ensure_business_day up to its loop.
AddMonths ==
    /\ bd_pc = "start"
    /\ \E days \in MonthLengths :
         /\ bd_date' = bd_date + days
         /\ bd_base' = bd_date'
    /\ bd_pc' = "loop"
    /\ UNCHANGED bd_holidays
    /\ OutsideRoll

\* One turn of the while loop.
Advance ==
    /\ bd_pc = "loop"
    /\ not_business_day(bd_date, bd_holidays)
    /\ bd_date' = advance(bd_date)
    /\ UNCHANGED <<bd_pc, bd_holidays, bd_base>>
    /\ OutsideRoll

\* Lines 95 and 114: the loop's test fails and new_date is returned.
ReturnBusinessDay ==
    /\ bd_pc = "loop"
    /\ ~ not_business_day(bd_date, bd_holidays)
    /\ bd_pc' = "returned"
    /\ UNCHANGED <<bd_holidays, bd_base, bd_date>>
    /\ OutsideRoll

RollNext ==
    \/ AddWeeks
    \/ AddMonths
    \/ Advance
    \/ ReturnBusinessDay

SpecRoll == RollInit /\ [][RollNext]_vars

\* The interpreter runs the call on: a statement that can run does run.
SpecRollLive == SpecRoll /\ WF_vars(RollNext)

\* The date returned is the first business day on or after start + offset.
EarliestBusinessDay ==
    bd_pc = "returned" =>
        /\ bd_date >= bd_base
        /\ ~ not_business_day(bd_date, bd_holidays)
        /\ \A day \in bd_base .. (bd_date - 1) : not_business_day(day, bd_holidays)

\* C24: both functions terminate, and return the earliest date on or after
\* start + offset that is no Saturday, no Sunday and no holiday; in the
\* loop new_date never falls behind start + offset.
C24_RollTerminatesOnEarliestBusinessDay ==
    /\ [](EarliestBusinessDay /\ (bd_pc = "loop" => bd_date >= bd_base))
    /\ <>(bd_pc = "returned")

\* start + offset was a Friday holiday followed by a Monday holiday: the
\* Tuesday is returned, four days on.
C24_Witness ==
    /\ bd_pc = "returned"
    /\ weekday(bd_base) = 4
    /\ {bd_base, bd_base + 3} \subseteq bd_holidays
    /\ bd_date = bd_base + 4

-----------------------------------------------------------------------------
(* core/rates_engine.py: get_rate_tenor on the tickers of infra/config.py *)

BGN_CURNCY == <<" ", "B", "G", "N", " ", "C", "U", "R", "N", "C", "Y">>

\* The tenor codes in the order of the lists of DISCOUNT_CURVE_MAPPING.
TenorCodes ==
    << <<"1", "Z">>, <<"2", "Z">>, <<"3", "Z">>,
       <<"A">>, <<"B">>, <<"C">>, <<"D">>, <<"E">>, <<"F">>, <<"G">>, <<"H">>,
       <<"I">>, <<"J">>, <<"K">>, <<"1">>, <<"1", "F">>, <<"2">>, <<"3">> >>

CurvePrefix ==
    [ccy \in {"USD", "EUR", "GBP"} |->
        CASE ccy = "USD" -> <<"U", "S", "O", "S", "F", "R">>
          [] ccy = "EUR" -> <<"E", "E", "S", "W", "E">>
          [] ccy = "GBP" -> <<"B", "P", "S", "W", "S">>]

\* config.py lines 29-90.
DISCOUNT_CURVE_MAPPING ==
    [ccy \in DOMAIN CurvePrefix |->
        [i \in DOMAIN TenorCodes |-> CurvePrefix[ccy] \o TenorCodes[i] \o BGN_CURNCY]]

Tenor(suffix, period_type, period_value) ==
    [suffix |-> suffix, period_type |-> period_type, period_value |-> period_value]

\* Lines 124-131: the entries in the order the dict literal lists them,
\* which is the order the loop of line 133 visits them.
tenor_map ==
    << Tenor(<<"1", "Z">>, "weeks", 1), Tenor(<<"2", "Z">>, "weeks", 2),
       Tenor(<<"3", "Z">>, "weeks", 3),
       Tenor(<<"A">>, "months", 1), Tenor(<<"B">>, "months", 2),
       Tenor(<<"C">>, "months", 3), Tenor(<<"D">>, "months", 4),
       Tenor(<<"E">>, "months", 5), Tenor(<<"F">>, "months", 6),
       Tenor(<<"G">>, "months", 7), Tenor(<<"H">>, "months", 8),
       Tenor(<<"I">>, "months", 9), Tenor(<<"J">>, "months", 10),
       Tenor(<<"K">>, "months", 11), Tenor(<<"1">>, "months", 12),
       Tenor(<<"1", "F">>, "months", 18), Tenor(<<"2">>, "months", 24),
       Tenor(<<"3">>, "months", 36) >>

\* s.endswith(suffix)
endswith(s, suffix) ==
    Len(s) >= Len(suffix) /\ SubSeq(s, Len(s) - Len(suffix) + 1, Len(s)) = suffix

TenorRaised == [raised |-> TRUE, period_type |-> "", period_value |-> 0]

\* Lines 118-140: the first entry of tenor_map whose suffix, followed by
\* " BGN CURNCY", ends the ticker decides the offset.
get_rate_tenor(ccy, curve_ticker) ==
    IF ccy \notin {"USD", "EUR", "GBP"} THEN TenorRaised
    ELSE LET matching ==
                 { i \in DOMAIN tenor_map :
                     endswith(curve_ticker, tenor_map[i].suffix \o BGN_CURNCY) }
         IN  IF matching = {} THEN TenorRaised
             ELSE LET first == SetMin(matching)
                  IN  [raised |-> FALSE,
                       period_type |-> tenor_map[first].period_type,
                       period_value |-> tenor_map[first].period_value]

\* The tickers get_rate_tenor may be handed: the configured ones, one with
\* a tenor code of no table entry and one of another market sector.
TenorTickers ==
    UNION {Range(DISCOUNT_CURVE_MAPPING[ccy]) : ccy \in DOMAIN DISCOUNT_CURVE_MAPPING}
    \cup { <<"U", "S", "O", "S", "F", "R", "5">> \o BGN_CURNCY,
           <<"U", "S", "O", "S", "F", "R", "A", " ", "C", "u", "r", "n", "c", "y">> }

OutsideTenor ==
    UNCHANGED <<earlierVars, chainVars, meetingVars, rollVars, sessionVars,
                connectionVars>>

TenorInit ==
    /\ tn_pc = "start"
    /\ tn_ccy \in {"USD", "EUR", "GBP", "JPY"}
    /\ tn_ticker \in TenorTickers
    /\ tn_out = NoTenor
    /\ EarlierIdle
    /\ ChainIdle /\ MeetingIdle /\ RollIdle /\ SessionIdle /\ ConnectionIdle

GetRateTenor ==
    /\ tn_pc = "start"
    /\ tn_out' = get_rate_tenor(tn_ccy, tn_ticker)
    /\ tn_pc' = IF tn_out'.raised THEN "raised" ELSE "returned"
    /\ UNCHANGED <<tn_ccy, tn_ticker>>
    /\ OutsideTenor

TenorNext == GetRateTenor

SpecTenor == TenorInit /\ [][TenorNext]_vars

\* C25: a ticker configured for its currency gets the offset the tenor
\* table assigns to its own tenor code, so the tickers of a currency get
\* distinct offsets.
C25_OwnTenorCode ==
    (tn_pc # "start" /\ tn_ccy \in DOMAIN DISCOUNT_CURVE_MAPPING) =>
        \A i \in DOMAIN TenorCodes :
            tn_ticker = DISCOUNT_CURVE_MAPPING[tn_ccy][i] =>
                \E k \in DOMAIN tenor_map :
                    /\ tenor_map[k].suffix = TenorCodes[i]
                    /\ tn_out = [raised |-> FALSE,
                                 period_type |-> tenor_map[k].period_type,
                                 period_value |-> tenor_map[k].period_value]

\* Every configured ticker but the 18-month one gets its own offset.
C25_AllButEighteenMonths ==
    (tn_pc # "start" /\ tn_ccy \in DOMAIN DISCOUNT_CURVE_MAPPING) =>
        \A i \in DOMAIN TenorCodes :
            (tn_ticker = DISCOUNT_CURVE_MAPPING[tn_ccy][i]
                /\ TenorCodes[i] # <<"1", "F">>) =>
                \E k \in DOMAIN tenor_map :
                    /\ tenor_map[k].suffix = TenorCodes[i]
                    /\ tn_out = [raised |-> FALSE,
                                 period_type |-> tenor_map[k].period_type,
                                 period_value |-> tenor_map[k].period_value]

\* USOSFR1F BGN CURNCY is given the 6 months of code F.
C25_EighteenMonthsAsSix ==
    /\ tn_pc = "returned"
    /\ tn_ccy = "USD"
    /\ tn_ticker = <<"U", "S", "O", "S", "F", "R", "1", "F">> \o BGN_CURNCY
    /\ tn_out = [raised |-> FALSE, period_type |-> "months", period_value |-> 6]

-----------------------------------------------------------------------------
(* A session: calls of analyze_stir_scenarios (tools/stir_scenario_tool.py)
   and of plot_rnd_analysis (stir_macro_analyst/tools/plot_rnd_tool.py) on
   one tool_context, one after the other *)

MaxCalls == 3

\* state_key_2 = None
None == <<>>

SessionDates == {ToolDate, <<"2", "0", "2", "4", "1", "0", "1", "7">>}

AnalyzeScenarioDicts ==
    { <<>>, <<[name |-> "Cut", range |-> PyList(<<1, 2>>)]>> }

\* The scenarios of a plot call: ranges of two rates, or a range of one.
PlotScenarioDicts ==
    { <<[name |-> "Cut", range |-> PyList(<<1, 2>>)]>>,
      <<[name |-> "Cut", range |-> PyList(<<1>>)]>> }

SessionKeys == {state_key_of(c, d) : c \in ToolContracts, d \in SessionDates}

\* stir_analysis.py lines 131-155: the result with the fields
\* plot_rnd_analysis reads as well.
analysis_result(contract, date, scenarios_tuples) ==
    LET core == core_result(contract, date, scenarios_tuples)
    IN  [f \in DOMAIN core \cup {"forward_rate", "rnd_data"} |->
            IF f = "forward_rate" THEN "computed"
            ELSE IF f = "rnd_data"
                 THEN [strikes |-> "computed", density |-> "computed"]
                 ELSE core[f]]

\* An assignment that leaves an entry already under the key alone.
state_set_keep_first(state, state_key, result) ==
    IF state_key \in DOMAIN state THEN state
    ELSE [k \in DOMAIN state \cup {state_key} |->
             IF k = state_key THEN result ELSE state[k]]

\* stir_scenario_tool.py line 61: tool_context.state[state_key] = result
state_set(state, state_key, result) ==
    [k \in DOMAIN state \cup {state_key} |->
        IF k = state_key THEN result ELSE state[k]]

\* A lookup that answers a missing key with an analysis of nothing.
state_get_default(state, state_key) ==
    IF state_key \in DOMAIN state THEN state[state_key]
    ELSE analysis_result(<<>>, <<>>, <<>>)

\* plot_rnd_tool.py lines 109, 131: tool_context.state.get(state_key),
\* None being the dict of no field.
state_get(state, state_key) ==
    IF state_key \in DOMAIN state THEN state[state_key] ELSE NoDict

Extracted(raised, date) == [raised |-> raised, date |-> date]

\* plot_rnd_tool.py lines 15-56, _extract_rnd_components: the exception
\* raised, or the date among the components returned.
extract_rnd_components(rnd_analysis) ==
    IF "success" \in DOMAIN rnd_analysis /\ ~ rnd_analysis.success
    THEN Extracted("ValueError", <<>>)
    ELSE IF ~ ({"date", "forward_rate", "rnd_data"} \subseteq DOMAIN rnd_analysis)
    THEN Extracted("KeyError", <<>>)
    ELSE IF ~ ({"strikes", "density"} \subseteq DOMAIN rnd_analysis.rnd_data)
    THEN Extracted("KeyError", <<>>)
    ELSE Extracted("", rnd_analysis.date)

PNG == <<".", "p", "n", "g">>

\* Lines 191, 242, 371: f"rnd_{date}.png"
rnd_filename(date) == <<"r", "n", "d", "_">> \o date \o PNG

\* Line 302: f"rnd_comparison_{date1}_vs_{date2}.png"
comparison_filename(date1, date2) ==
    <<"r", "n", "d", "_", "c", "o", "m", "p", "a", "r", "i", "s", "o", "n", "_">>
        \o date1 \o <<"_", "v", "s", "_">> \o date2 \o PNG

\* tool_context.save_artifact(filename, artifact): the store keeps one
\* artifact per filename, a second save under a name replacing the first.
save_artifact(store, filename) == store \cup {filename}

\* Lines 111-116, 133-138.
not_found(state_key) ==
    [success |-> FALSE,
     error |-> <<"No analysis found in session state for key: ">> \o state_key,
     suggestion |-> "Ensure analyze_stir_scenarios was called first for this date"]

\* Lines 385-399.
plot_failed(exception) ==
    [success |-> FALSE,
     error |-> <<exception>>,
     message |-> IF exception = "KeyError"
                 THEN "Analysis results incomplete"
                 ELSE "Failed to generate RND visualization charts"]

\* Lines 157-158 and the same in each chart: min_r, max_r = rate_range
\* raises on a range that has not two items.
unpack_raises(scenarios) ==
    \E i \in DOMAIN scenarios : Len(scenarios[i].range.items) # 2

\* date1 and date2 of the plot call in progress.
date1 == extract_rnd_components(state_get(ss_state, ss_req.state_key_1)).date
date2 == extract_rnd_components(state_get(ss_state, ss_req.state_key_2)).date

OutsideSession ==
    UNCHANGED <<earlierVars, chainVars, meetingVars, rollVars, tenorVars,
                connectionVars>>

SessionInit ==
    /\ ss_pc = "idle"
    /\ ss_state = NoDict
    /\ ss_artifacts = {}
    /\ ss_runs = 0
    /\ ss_req = NoDict
    /\ ss_out = NoDict
    /\ ss_prev = NoDict
    /\ ss_saved = <<>>
    /\ EarlierIdle
    /\ ChainIdle /\ MeetingIdle /\ RollIdle /\ TenorIdle /\ ConnectionIdle

CallBegins ==
    /\ ss_prev' = [state |-> ss_state, artifacts |-> ss_artifacts]
    /\ ss_runs' = ss_runs + 1
    /\ ss_saved' = <<>>

\* stir_scenario_tool.py lines 48-80: one call of analyze_stir_scenarios.
\* analyze_stir_contract raises (lines 73-80) or returns (lines 60-71).
Analyze ==
    /\ ss_pc = "idle"
    /\ ss_runs < MaxCalls
    /\ \E contract \in ToolContracts, date \in SessionDates,
          scenarios \in AnalyzeScenarioDicts, core_raises \in BOOLEAN :
          LET scenarios_tuples == scenarios_to_tuples(scenarios)
              state_key == state_key_of(contract, date)
              result == with_state_key(
                            analysis_result(contract, date, scenarios_tuples),
                            state_key)
          IN  /\ ss_req' = [tool |-> "analyze", contract |-> contract,
                            date |-> date, scenarios |-> scenarios]
              /\ IF core_raises
                 THEN /\ ss_out' = error_result(contract, date)
                      /\ ss_state' = ss_state
                 ELSE /\ ss_state' = state_set(ss_state, state_key, result)
                      /\ ss_out' = result
    /\ CallBegins
    /\ UNCHANGED <<ss_pc, ss_artifacts>>
    /\ OutsideSession

\* plot_rnd_tool.py lines 105-119: the call begins and looks up state_key_1.
PlotFirstKey ==
    /\ ss_pc = "idle"
    /\ ss_runs < MaxCalls
    /\ \E state_key_1 \in SessionKeys, state_key_2 \in SessionKeys \cup {None},
          scenarios \in PlotScenarioDicts :
          LET rnd_data_1 == state_get(ss_state, state_key_1)
          IN  /\ ss_req' = [tool |-> "plot", state_key_1 |-> state_key_1,
                            state_key_2 |-> state_key_2, scenarios |-> scenarios]
              /\ IF rnd_data_1 = NoDict
                 THEN /\ ss_out' = not_found(state_key_1)
                      /\ ss_pc' = "idle"
                 ELSE IF extract_rnd_components(rnd_data_1).raised # ""
                 THEN /\ ss_out' = plot_failed(extract_rnd_components(rnd_data_1).raised)
                      /\ ss_pc' = "idle"
                 ELSE /\ ss_out' = NoDict
                      /\ ss_pc' = "mode"
    /\ CallBegins
    /\ UNCHANGED <<ss_state, ss_artifacts>>
    /\ OutsideSession

\* Lines 122-141: single-date mode, or the lookup of state_key_2.
PlotSecondKey ==
    /\ ss_pc = "mode"
    /\ IF ss_req.state_key_2 = None
       THEN /\ ss_pc' = "single"
            /\ UNCHANGED ss_out
       ELSE LET rnd_data_2 == state_get(ss_state, ss_req.state_key_2)
            IN  IF rnd_data_2 = NoDict
                THEN /\ ss_out' = not_found(ss_req.state_key_2)
                     /\ ss_pc' = "idle"
                ELSE IF extract_rnd_components(rnd_data_2).raised # ""
                THEN /\ ss_out' = plot_failed(extract_rnd_components(rnd_data_2).raised)
                     /\ ss_pc' = "idle"
                ELSE /\ ss_pc' = "chart1"
                     /\ UNCHANGED ss_out
    /\ UNCHANGED <<ss_state, ss_artifacts, ss_runs, ss_req, ss_prev, ss_saved>>
    /\ OutsideSession

\* The chart of the step is drawn and saved under filename, or drawing it
\* raises on the scenarios.
SaveChart(filename, next_pc) ==
    IF unpack_raises(ss_req.scenarios)
    THEN /\ ss_out' = plot_failed("ValueError")
         /\ ss_pc' = "idle"
         /\ UNCHANGED <<ss_artifacts, ss_saved>>
    ELSE /\ ss_artifacts' = save_artifact(ss_artifacts, filename)
         /\ ss_saved' = Append(ss_saved, filename)
         /\ ss_pc' = next_pc
         /\ UNCHANGED ss_out

\* Lines 143-194.
PlotChart1 ==
    /\ ss_pc = "chart1"
    /\ SaveChart(rnd_filename(date1), "chart2")
    /\ UNCHANGED <<ss_state, ss_runs, ss_req, ss_prev>>
    /\ OutsideSession

\* Lines 196-245.
PlotChart2 ==
    /\ ss_pc = "chart2"
    /\ SaveChart(rnd_filename(date2), "chart3")
    /\ UNCHANGED <<ss_state, ss_runs, ss_req, ss_prev>>
    /\ OutsideSession

\* Lines 247-319: the comparison chart and the return.
PlotChart3 ==
    /\ ss_pc = "chart3"
    /\ IF unpack_raises(ss_req.scenarios)
       THEN /\ ss_out' = plot_failed("ValueError")
            /\ UNCHANGED <<ss_artifacts, ss_saved>>
       ELSE LET filename3 == comparison_filename(date1, date2)
            IN  /\ ss_artifacts' = save_artifact(ss_artifacts, filename3)
                /\ ss_saved' = Append(ss_saved, filename3)
                /\ ss_out' = [success |-> TRUE,
                              mode |-> "comparison",
                              artifacts_saved |-> ss_saved',
                              chart_1 |-> rnd_filename(date1),
                              chart_2 |-> rnd_filename(date2),
                              chart_3 |-> filename3]
    /\ ss_pc' = "idle"
    /\ UNCHANGED <<ss_state, ss_runs, ss_req, ss_prev>>
    /\ OutsideSession

\* Lines 321-383: the one chart of single-date mode and the return.
PlotSingle ==
    /\ ss_pc = "single"
    /\ IF unpack_raises(ss_req.scenarios)
       THEN /\ ss_out' = plot_failed("ValueError")
            /\ UNCHANGED <<ss_artifacts, ss_saved>>
       ELSE LET filename == rnd_filename(date1)
            IN  /\ ss_artifacts' = save_artifact(ss_artifacts, filename)
                /\ ss_saved' = Append(ss_saved, filename)
                /\ ss_out' = [success |-> TRUE,
                              mode |-> "single_date",
                              artifacts_saved |-> ss_saved',
                              chart |-> filename]
    /\ ss_pc' = "idle"
    /\ UNCHANGED <<ss_state, ss_runs, ss_req, ss_prev>>
    /\ OutsideSession

SessionNext ==
    \/ Analyze
    \/ PlotFirstKey
    \/ PlotSecondKey
    \/ PlotChart1
    \/ PlotChart2
    \/ PlotChart3
    \/ PlotSingle

SpecSession == SessionInit /\ [][SessionNext]_vars

-----------------------------------------------------------------------------
(* Claims about the session state and the charts *)

AnalyzeReturned == ss_pc = "idle" /\ ss_runs > 0 /\ ss_req.tool = "analyze"
PlotCalled == ss_runs > 0 /\ ss_req.tool = "plot"
PlotReturned == ss_pc = "idle" /\ PlotCalled

\* f"stir_analysis_{contract}_{date}" of the arguments of the last call.
RequestKey == state_key_of(ss_req.contract, ss_req.date)

\* C26: after a successful analyze_stir_scenarios call the session state
\* maps "stir_analysis_{contract}_{date}", built from the arguments as
\* passed, to the result the call returned, whose state_key is that key;
\* and the state changes in no other way than by such a call setting its
\* own key, so an entry is the result of the latest successful call for
\* its key.
C26_StateHoldsLatestResult ==
    /\ [](AnalyzeReturned /\ ss_out.success =>
            /\ RequestKey \in DOMAIN ss_state
            /\ ss_state[RequestKey] = ss_out
            /\ ss_out.state_key = RequestKey)
    /\ [][\/ ss_state' = ss_state
          \/ /\ AnalyzeReturned'
             /\ ss_out'.success
             /\ DOMAIN ss_state' = DOMAIN ss_state \cup {RequestKey'}
             /\ ss_state'[RequestKey'] = ss_out'
             /\ \A k \in DOMAIN ss_state \ {RequestKey'} :
                   ss_state'[k] = ss_state[k]]_vars

\* A second successful analysis of a contract on a date, with other
\* scenarios than the first, has replaced the first under the key, which
\* names the contract as passed and not as the result names it.
C26_Witness ==
    /\ AnalyzeReturned
    /\ ss_out.success
    /\ RequestKey \in DOMAIN ss_prev.state
    /\ ss_prev.state[RequestKey] # ss_out
    /\ ss_state[RequestKey] = ss_out
    /\ ss_out.contract # ss_req.contract

\* C27: an analyze_stir_scenarios call in which the analysis fails returns
\* a dict of success = False, the error, the contract and the date as
\* passed, and the session state is what it was when the call began.
C27_FailureLeavesStateAlone ==
    (AnalyzeReturned /\ ~ ss_out.success) =>
        /\ DOMAIN ss_out = {"success", "error", "contract", "date"}
        /\ ss_out.contract = ss_req.contract
        /\ ss_out.date = ss_req.date
        /\ ss_state = ss_prev.state
        /\ ss_artifacts = ss_prev.artifacts

\* A failed call for a key that had an entry: the entry is still there.
C27_Witness ==
    /\ AnalyzeReturned
    /\ ~ ss_out.success
    /\ RequestKey \in DOMAIN ss_prev.state
    /\ ss_state[RequestKey] = ss_prev.state[RequestKey]
    /\ ss_state[RequestKey].success

\* The state keys a plot call was given.
GivenKeys ==
    {ss_req.state_key_1}
    \cup (IF ss_req.state_key_2 = None THEN {} ELSE {ss_req.state_key_2})

\* C28: plot_rnd_analysis returns success = True only if each key it was
\* given has an entry that a successful analysis stored; with a key of no
\* entry it returns success = False naming a missing key, having saved no
\* artifact; and no chart is saved before both keys were found.
C28_ChartsOnlyOfStoredAnalyses ==
    PlotCalled =>
        /\ (PlotReturned /\ ss_out.success) =>
              \A k \in GivenKeys :
                  /\ k \in DOMAIN ss_state
                  /\ ss_state[k].success
                  /\ ss_state[k].state_key = k
        /\ (PlotReturned /\ \E k \in GivenKeys : k \notin DOMAIN ss_state) =>
              /\ ~ ss_out.success
              /\ \E k \in GivenKeys :
                    /\ k \notin DOMAIN ss_state
                    /\ ss_out.error =
                          <<"No analysis found in session state for key: ">> \o k
              /\ ss_saved = <<>>
              /\ ss_artifacts = ss_prev.artifacts
        /\ ss_saved # <<>> => GivenKeys \subseteq DOMAIN ss_state

\* The first key has an entry, the second has none: the call has returned
\* naming the second, with nothing saved.
C28_Witness ==
    /\ PlotReturned
    /\ ss_req.state_key_1 \in DOMAIN ss_state
    /\ ss_req.state_key_2 # None
    /\ ss_req.state_key_2 \notin DOMAIN ss_state
    /\ ~ ss_out.success
    /\ ss_saved = <<>>

ChartsExpected == IF ss_req.state_key_2 = None THEN 1 ELSE 3

\* C29: a successful plot_rnd_analysis call has written 1 artifact in
\* single-date mode and 3 distinct artifacts in comparison mode, and
\* artifacts_saved lists exactly them.
C29_OneOrThreeCharts ==
    (PlotReturned /\ ss_out.success) =>
        /\ Len(ss_saved) = ChartsExpected
        /\ Cardinality(Range(ss_saved)) = ChartsExpected
        /\ Range(ss_saved) \subseteq ss_artifacts
        /\ ss_out.artifacts_saved = ss_saved

\* The same holds of the calls whose two analyses are of different dates,
\* and of single-date calls.
C29_DistinctDates ==
    (PlotReturned /\ ss_out.success /\ (ss_req.state_key_2 # None => date1 # date2)) =>
        /\ Len(ss_saved) = ChartsExpected
        /\ Cardinality(Range(ss_saved)) = ChartsExpected
        /\ Range(ss_saved) \subseteq ss_artifacts
        /\ ss_out.artifacts_saved = ss_saved

\* SFRZ6 and ERH5 analysed on the same date and compared: the second
\* chart was saved under the filename of the first, and the call wrote
\* two artifacts.
C29_SecondChartReplacesFirst ==
    /\ PlotReturned
    /\ ss_out.success
    /\ ss_req.state_key_2 # None
    /\ ss_req.state_key_1 # ss_req.state_key_2
    /\ ss_saved[1] = ss_saved[2]
    /\ Cardinality(Range(ss_saved)) = 2

-----------------------------------------------------------------------------
(* stir_macro_analyst/infra/bbg_client.py: BloombergConnection, as
   get_futures_settlement (core/market_data.py) uses it, one with-statement
   after the other *)

MaxConnections == 3
MaxEvents == 2

OutsideConnection ==
    UNCHANGED <<earlierVars, chainVars, meetingVars, rollVars, tenorVars,
                sessionVars>>

ConnectionInit ==
    /\ ConnectionIdle
    /\ EarlierIdle
    /\ ChainIdle /\ MeetingIdle /\ RollIdle /\ TenorIdle /\ SessionIdle

\* market_data.py line 22, bbg_client.py lines 10-13: a new
\* BloombergConnection, its session None.  The session of the one before,
\* if still started, stays so: nothing refers to it any more.
NewConnection ==
    /\ bc_pc \in {"idle", "left"}
    /\ bc_conns < MaxConnections
    /\ bc_conns' = bc_conns + 1
    /\ bc_running' = bc_running + (IF bc_session = "started" THEN 1 ELSE 0)
    /\ bc_session' = "none"
    /\ bc_stops' = 0
    /\ bc_events' = 0
    /\ bc_exc' = ""
    /\ bc_pc' = "enter"
    /\ OutsideConnection

\* Lines 16-20 of __enter__.
CreateSession ==
    /\ bc_pc = "enter"
    /\ bc_session' = "created"
    /\ bc_pc' = "start"
    /\ UNCHANGED <<bc_stops, bc_conns, bc_events, bc_exc, bc_running>>
    /\ OutsideConnection

\* Lines 22-23: session.start().  An exception of __enter__ leaves the
\* with-statement without a call of __exit__.
StartSession ==
    /\ bc_pc = "start"
    /\ \E started \in BOOLEAN :
          IF started
          THEN /\ bc_session' = "started"
               /\ bc_pc' = "open"
               /\ UNCHANGED bc_exc
          ELSE /\ bc_exc' = "ConnectionError"
               /\ bc_pc' = "left"
               /\ UNCHANGED bc_session
    /\ UNCHANGED <<bc_stops, bc_conns, bc_events, bc_running>>
    /\ OutsideConnection

\* Lines 24-27: session.openService("//blp/refdata") and return self.
OpenService ==
    /\ bc_pc = "open"
    /\ \E opened \in BOOLEAN :
          IF opened
          THEN /\ bc_pc' = "body"
               /\ UNCHANGED bc_exc
          ELSE /\ bc_exc' = "ConnectionError"
               /\ bc_pc' = "left"
    /\ UNCHANGED <<bc_session, bc_stops, bc_conns, bc_events, bc_running>>
    /\ OutsideConnection

\* Lines 115-126 of fetch_historical_data: one turn of the loop on
\* nextEvent, which ends with the RESPONSE event.
NextEvent ==
    /\ bc_pc = "body"
    /\ \E response \in BOOLEAN :
          IF response
          THEN /\ bc_pc' = "fetched"
               /\ UNCHANGED bc_events
          ELSE /\ bc_events < MaxEvents
               /\ bc_events' = bc_events + 1
               /\ UNCHANGED bc_pc
    /\ UNCHANGED <<bc_session, bc_stops, bc_conns, bc_exc, bc_running>>
    /\ OutsideConnection

\* market_data.py lines 25-35: the body raises on an empty frame, or
\* returns.
BodyEnds ==
    /\ bc_pc = "fetched"
    /\ \E empty \in BOOLEAN :
          bc_exc' = IF empty THEN "ValueError" ELSE ""
    /\ bc_pc' = "exit"
    /\ UNCHANGED <<bc_session, bc_stops, bc_conns, bc_events, bc_running>>
    /\ OutsideConnection

\* Lines 29-31: __exit__, which lets the exception of the body through.
Exit ==
    /\ bc_pc = "exit"
    /\ IF bc_session # "none"
       THEN /\ bc_session' = "stopped"
            /\ bc_stops' = bc_stops + 1
       ELSE UNCHANGED <<bc_session, bc_stops>>
    /\ bc_pc' = "left"
    /\ UNCHANGED <<bc_conns, bc_events, bc_exc, bc_running>>
    /\ OutsideConnection

ConnectionNext ==
    \/ NewConnection
    \/ CreateSession
    \/ StartSession
    \/ OpenService
    \/ NextEvent
    \/ BodyEnds
    \/ Exit

SpecConnection == ConnectionInit /\ [][ConnectionNext]_vars

\* Python runs the statements one after the other and nextEvent returns
\* after its timeout at the latest.
SpecConnectionLive == SpecConnection /\ WF_vars(ConnectionNext)

-----------------------------------------------------------------------------
(* Claims about BloombergConnection *)

\* C30: every session that was started is eventually stopped, by one call
\* of session.stop() and no more, and no with-statement leaves a started
\* session behind.
C30_StartedSessionStopped ==
    /\ [](bc_session = "started" => <>(bc_session = "stopped"))
    /\ [](bc_stops <= 1)
    /\ [](bc_running = 0)

\* The same of the sessions whose with-block was entered: the body
\* completing or raising, stop() is called once.
C30_StoppedOnceEntered ==
    /\ [](bc_pc = "body" => <>(bc_session = "stopped" /\ bc_stops = 1))
    /\ [](bc_stops <= 1)
    /\ [](bc_pc = "left" /\ bc_session = "stopped" => bc_stops = 1)

\* openService failed after start() succeeded: the with-statement was
\* left with the session started and stop() never called.
C30_LeftStarted ==
    /\ bc_pc = "left"
    /\ bc_session = "started"
    /\ bc_exc = "ConnectionError"
    /\ bc_stops = 0

=============================================================================
